---------------------------- MODULE Spec2Model ----------------------------
(***************************************************************************)
(* Market data feed handler: the subscriber's stream reframer              *)
(* (parser::MessageParser), the seqlock symbol cache (cache::SymbolCache)  *)
(* the publisher's broadcast engine (server::ExchangeSimulator) and the     *)
(* latency histogram (perf::LatencyTracker).                                *)
(*                                                                         *)
(* Each subsystem has its own specification over its own variables; the    *)
(* variables of the other subsystems stay at their initial values.         *)
(***************************************************************************)
EXTENDS Integers, Sequences, FiniteSets, TLC

VARIABLES
    parser,      \* the MessageParser object (fields as in include/parser.h)
    steps,       \* views of the parser before/after each parse_message() of the last parse() call
    call,        \* the last operation on the parser: its kind, input length, return value
    resetAt,     \* number of callbacks made before the construction / the last reset()
    atReset,     \* at the last reset(): frames the peer had written, bytes that were buffered
    wire,        \* bytes produced by the peer and not yet passed to parse()
    sent,        \* the frames put on the wire so far (bytes, and how they were built)
    emitSeq,     \* sequence number of the last frame put on the wire
    bulks,       \* number of oversized inputs fed so far
    fragmented   \* SpecStream: some parse() call returned with a partial frame buffered

VARIABLES
    cache,       \* the SymbolCache object: num_symbols_ and states_ (counter and data per slot)
    writer,      \* the writer thread: the update_* call it is in and how far it got
    readers,     \* each reader thread: the get_snapshot call it is in and how far it got
    clock,       \* the clock read by get_timestamp_ns()
    history,     \* per slot, its data after 0, 1, 2, ... completed updates
    ops,         \* per slot, the update_* calls started on it, in order
    wcalls,      \* number of update_* calls made so far
    results      \* per reader, what its get_snapshot calls returned, in order

VARIABLES
    sim,         \* the ExchangeSimulator object (members as in exchange_simulator.h)
    fds,         \* the process's open descriptors
    socks,       \* per connected peer descriptor: how the peer reads, the bytes queued for it, the frames written to it in full
    backlog,     \* connections completed by the kernel and not yet accepted
    now,         \* the clock read by run() and start()
    conns,       \* number of connections made to the listener so far
    ticks,       \* number of emissions so far
    lastRun,     \* what the last run() call did: the peer list before and after, the sends, the closes
    stopped,     \* stop() has returned, and start() has not been called since
    g_running,   \* the flag the signal handler clears and the main loop polls
    generated    \* the generate_tick() calls so far: id, outcome, sequence number stamped, clock and interval of the run() that made it

VARIABLES
    tracker,     \* the LatencyTracker object (members as in latency_tracker.h)
    mirror,      \* a second LatencyTracker, built like the first and fed in another order
    recorders,   \* each recording thread: the record() call it is in and how far it got
    recorded,    \* the samples passed to tracker.record() so far, in call order
    mirrored,    \* the samples passed to mirror.record() so far, in call order
    todo         \* the samples still to be recorded into tracker and into mirror

parserVars == <<parser, steps, call, resetAt, atReset, wire, sent, emitSeq, bulks, fragmented>>

cacheVars == <<cache, writer, readers, clock, history, ops, wcalls, results>>

engineVars == <<sim, fds, socks, backlog, now, conns, ticks, lastRun, stopped, generated, g_running>>

latencyVars == <<tracker, mirror, recorders, recorded, mirrored, todo>>

vars == <<parserVars, cacheVars, engineVars, latencyVars>>

-----------------------------------------------------------------------------
(* Bounds of the model *)

MaxFrames == 3        \* frames put on the wire in one behaviour
MaxStream == 2        \* frames of a valid stream (SpecStream)
MaxBulk == 1          \* oversized inputs in one behaviour

-----------------------------------------------------------------------------
(* protocol.h: wire layout *)

TRADE == 1
QUOTE == 2
HEARTBEAT == 3
SUBSCRIBE == 255

HeaderSize == 16
TradeSize == 32
QuoteSize == 44
HeartbeatSize == 20
ChecksumSize == 4
BUFFER_SIZE == 8192

Min(a, b) == IF a < b THEN a ELSE b

\* little-endian bytes of an n-byte unsigned field (packed struct on a
\* little-endian host)
RECURSIVE LE(_, _)
LE(v, n) == IF n = 0 THEN << >> ELSE <<v % 256>> \o LE(v \div 256, n - 1)

\* the n-byte unsigned little-endian field at offset off (0-based) of b
RECURSIVE ReadLE(_, _, _)
ReadLE(b, off, n) ==
    IF n = 0 THEN 0 ELSE b[off + 1] + 256 * ReadLE(b, off + 1, n - 1)

\* bitwise exclusive or of two bytes
RECURSIVE Xor(_, _)
Xor(a, b) ==
    IF a = 0 THEN b
    ELSE IF b = 0 THEN a
    ELSE ((a + b) % 2) + 2 * Xor(a \div 2, b \div 2)

\* calculate_checksum: XOR of the first len bytes, as a uint32_t
RECURSIVE calculate_checksum(_, _)
calculate_checksum(data, len) ==
    IF len = 0 THEN 0 ELSE Xor(calculate_checksum(data, len - 1), data[len])

\* a uint32_t is kept as its four little-endian bytes, so that the full
\* 32-bit range (sequence numbers up to 2^32 - 1, corrupted checksum words)
\* is represented exactly
U32(n) == LE(n, 4)
U32Max == <<255, 255, 255, 255>>

\* x + 1 in uint32_t arithmetic (wraps to 0 after 2^32 - 1)
RECURSIVE Inc32(_)
Inc32(x) ==
    IF x = << >> THEN << >>
    ELSE IF Head(x) < 255 THEN <<Head(x) + 1>> \o Tail(x)
    ELSE <<0>> \o Inc32(Tail(x))

RECURSIVE Add32(_, _)
Add32(x, k) == IF k = 0 THEN x ELSE Add32(Inc32(x), k - 1)

verify_checksum(data, total_len) ==
    IF total_len < ChecksumSize THEN FALSE
    ELSE LET data_len == total_len - ChecksumSize
             received_checksum == SubSeq(data, data_len + 1, total_len)
         IN  U32(calculate_checksum(data, data_len)) = received_checksum

get_message_size(type) ==
    CASE type = TRADE -> TradeSize
      [] type = QUOTE -> QuoteSize
      [] type = HEARTBEAT -> HeartbeatSize
      [] OTHER -> 0

\* MessageHeader: msg_type(2) sequence_number(4) timestamp_ns(8) symbol_id(2)
MessageHeader(type, seq, ts, sym) ==
    LE(type, 2) \o seq \o LE(ts, 8) \o LE(sym, 2)

HeaderType(b) == ReadLE(b, 0, 2)
HeaderSeq(b) == SubSeq(b, 3, 6)

\* payload bytes per type; pay stands for the price / quantity bit patterns
Payload(type, pay) ==
    CASE type = TRADE -> LE(pay, 8) \o LE(100 + pay, 4)
      [] type = QUOTE -> LE(pay, 8) \o LE(100, 4) \o LE(pay + 1, 8) \o LE(100, 4)
      [] OTHER -> << >>

\* a complete frame: header, payload, checksum over all preceding bytes
EncodeFrame(type, seq, sym, pay) ==
    LET body == MessageHeader(type, seq, 7, sym) \o Payload(type, pay)
    IN  body \o LE(calculate_checksum(body, Len(body)), ChecksumSize)

\* test_checksum_validation: bytes[size - 1] ^= 0xFF
CorruptFrame(f) == [f EXCEPT ![Len(f)] = Xor(f[Len(f)], 255)]

-----------------------------------------------------------------------------
(* parser.cpp: MessageParser *)

ParserStats ==
    [messages_parsed |-> 0, trades_parsed |-> 0, quotes_parsed |-> 0,
     heartbeats_parsed |-> 0, sequence_gaps |-> 0, checksum_errors |-> 0,
     malformed_messages |-> 0]

\* the object after MessageParser::MessageParser(); buffer holds the
\* buffer_used_ bytes in use, out is the log of the callbacks invoked so far
MessageParser ==
    [buffer |-> << >>, last_sequence_number |-> U32(0), first_message |-> TRUE,
     validate_checksum |-> TRUE, validate_sequence |-> TRUE,
     stats |-> ParserStats, out |-> << >>]

buffer_used(p) == Len(p.buffer)

\* a reset that leaves the buffered bytes in place
reset_keep(p) ==
    [p EXCEPT !.last_sequence_number = U32(0), !.first_message = TRUE]

reset(p) ==
    [p EXCEPT !.buffer = << >>, !.last_sequence_number = U32(0),
              !.first_message = TRUE]

\* a validation that gap-checks the first frame too
validate_message_nofirst(p, msg_size) ==
    IF p.validate_checksum /\ ~verify_checksum(p.buffer, msg_size)
    THEN [ok |-> FALSE,
          p |-> [p EXCEPT !.stats.checksum_errors = @ + 1]]
    ELSE LET seq == HeaderSeq(p.buffer)
             gap == /\ p.validate_sequence
                    /\ seq # Inc32(p.last_sequence_number)
         IN  [ok |-> TRUE,
              p |-> [p EXCEPT !.stats.sequence_gaps = IF gap THEN @ + 1 ELSE @,
                              !.last_sequence_number = seq,
                              !.first_message = FALSE]]

\* returns the parser after validation and the verdict
validate_message(p, msg_size) ==
    IF p.validate_checksum /\ ~verify_checksum(p.buffer, msg_size)
    THEN [ok |-> FALSE,
          p |-> [p EXCEPT !.stats.checksum_errors = @ + 1]]
    ELSE LET seq == HeaderSeq(p.buffer)
             gap == /\ p.validate_sequence
                    /\ ~p.first_message
                    /\ seq # Inc32(p.last_sequence_number)
         IN  [ok |-> TRUE,
              p |-> [p EXCEPT !.stats.sequence_gaps = IF gap THEN @ + 1 ELSE @,
                              !.last_sequence_number = seq,
                              !.first_message = FALSE]]

\* a dispatcher with no case for HEARTBEAT: it falls to the default branch
process_message_nobeat(p, type, msg) ==
    LET q == [p EXCEPT !.stats.messages_parsed = @ + 1]
    IN  CASE type = TRADE ->
               [q EXCEPT !.stats.trades_parsed = @ + 1,
                         !.out = Append(@, [cb |-> "trade", msg |-> msg])]
          [] type = QUOTE ->
               [q EXCEPT !.stats.quotes_parsed = @ + 1,
                         !.out = Append(@, [cb |-> "quote", msg |-> msg])]
          [] OTHER ->
               [q EXCEPT !.stats.malformed_messages = @ + 1]

\* process_message(type, msg_data)
process_message(p, type, msg) ==
    LET q == [p EXCEPT !.stats.messages_parsed = @ + 1]
    IN  CASE type = TRADE ->
               [q EXCEPT !.stats.trades_parsed = @ + 1,
                         !.out = Append(@, [cb |-> "trade", msg |-> msg])]
          [] type = QUOTE ->
               [q EXCEPT !.stats.quotes_parsed = @ + 1,
                         !.out = Append(@, [cb |-> "quote", msg |-> msg])]
          [] type = HEARTBEAT ->
               [q EXCEPT !.stats.heartbeats_parsed = @ + 1,
                         !.out = Append(@, [cb |-> "heartbeat", msg |-> msg])]
          [] OTHER ->
               [q EXCEPT !.stats.malformed_messages = @ + 1]

Drop(b, n) == SubSeq(b, n + 1, Len(b))

\* a parser that records the sequence number of a frame before it checks
\* the frame's integrity word
parse_message_early(p) ==
    IF buffer_used(p) < HeaderSize
    THEN [more |-> FALSE, p |-> p]
    ELSE LET type == HeaderType(p.buffer)
             msg_size == get_message_size(type)
         IN  IF msg_size = 0
             THEN [more |-> FALSE,
                   p |-> [p EXCEPT !.stats.malformed_messages = @ + 1,
                                   !.buffer = Drop(@, HeaderSize)]]
             ELSE IF buffer_used(p) < msg_size
             THEN [more |-> FALSE, p |-> p]
             ELSE LET v == validate_message(p, msg_size)
                  IN  IF ~v.ok
                      THEN [more |-> TRUE,
                            p |-> [v.p EXCEPT
                                     !.buffer = Drop(@, msg_size),
                                     !.last_sequence_number = HeaderSeq(p.buffer),
                                     !.first_message = FALSE]]
                      ELSE [more |-> TRUE,
                            p |-> [process_message(v.p, type,
                                                   SubSeq(p.buffer, 1, msg_size))
                                     EXCEPT !.buffer = Drop(@, msg_size)]]

\* a parser that throws the whole buffer away at a type it does not know
parse_message_flush(p) ==
    IF buffer_used(p) < HeaderSize
    THEN [more |-> FALSE, p |-> p]
    ELSE LET type == HeaderType(p.buffer)
             msg_size == get_message_size(type)
         IN  IF msg_size = 0
             THEN [more |-> FALSE,
                   p |-> [p EXCEPT !.stats.malformed_messages = @ + 1,
                                   !.buffer = << >>]]
             ELSE IF buffer_used(p) < msg_size
             THEN [more |-> FALSE, p |-> p]
             ELSE LET v == validate_message(p, msg_size)
                  IN  IF ~v.ok
                      THEN [more |-> TRUE,
                            p |-> [v.p EXCEPT !.buffer = Drop(@, msg_size)]]
                      ELSE [more |-> TRUE,
                            p |-> [process_message(v.p, type,
                                                   SubSeq(p.buffer, 1, msg_size))
                                     EXCEPT !.buffer = Drop(@, msg_size)]]

\* one call of parse_message(): the parser after it and its return value
parse_message(p) ==
    IF buffer_used(p) < HeaderSize
    THEN [more |-> FALSE, p |-> p]
    ELSE LET type == HeaderType(p.buffer)
             msg_size == get_message_size(type)
         IN  IF msg_size = 0
             THEN [more |-> FALSE,
                   p |-> [p EXCEPT !.stats.malformed_messages = @ + 1,
                                   !.buffer = Drop(@, HeaderSize)]]
             ELSE IF buffer_used(p) < msg_size
             THEN [more |-> FALSE, p |-> p]
             ELSE LET v == validate_message(p, msg_size)
                  IN  IF ~v.ok
                      THEN [more |-> TRUE,
                            p |-> [v.p EXCEPT !.buffer = Drop(@, msg_size)]]
                      ELSE [more |-> TRUE,
                            p |-> [process_message(v.p, type,
                                                   SubSeq(p.buffer, 1, msg_size))
                                     EXCEPT !.buffer = Drop(@, msg_size)]]

\* a loop that stops after the first message of a call
ParseLoop_once(p) == <<parse_message(p).p>>

\* while (parse_message()) {}: the parsers after each call, the last one last
RECURSIVE ParseLoop(_)
ParseLoop(p) ==
    LET r == parse_message(p)
    IN  IF r.more THEN <<r.p>> \o ParseLoop(r.p) ELSE <<r.p>>

\* a parse() that copies the whole input whatever room is left
parse_nocap(p, data) ==
    LET len == Len(data)
        q == [p EXCEPT !.buffer = @ \o data]
    IN  IF len = 0 THEN [ret |-> 0, trace |-> <<p>>]
        ELSE [ret |-> len, trace |-> <<q>> \o ParseLoop(q)]

\* parse(data, len): the return value and the parsers the loop went through
parse(p, data) ==
    LET len == Len(data)
        bytes_to_copy == Min(len, BUFFER_SIZE - buffer_used(p))
    IN  IF len = 0 THEN [ret |-> 0, trace |-> <<p>>]
        ELSE IF bytes_to_copy = 0 THEN [ret |-> 0, trace |-> <<reset(p)>>]
        ELSE LET q == [p EXCEPT !.buffer = @ \o SubSeq(data, 1, bytes_to_copy)]
             IN  [ret |-> bytes_to_copy, trace |-> <<q>> \o ParseLoop(q)]

-----------------------------------------------------------------------------
(* The subscriber's use of the parser *)

Last(s) == s[Len(s)]

\* what a parse_message() step can be judged on: the counters, the sequence
\* state, the buffered length, the frame at the front and the callbacks so far
View(p) ==
    [buffer_used |-> buffer_used(p),
     head |-> SubSeq(p.buffer, 1, Min(2 * QuoteSize, buffer_used(p))),
     last_sequence_number |-> p.last_sequence_number,
     first_message |-> p.first_message,
     validate_checksum |-> p.validate_checksum,
     validate_sequence |-> p.validate_sequence,
     stats |-> p.stats,
     out |-> p.out]

Views(trace) == [i \in 1..Len(trace) |-> View(trace[i])]

\* no reset() yet
NoReset == [sent |-> 0, buffer_used |-> 0]

NoCall == [op |-> "none", len |-> 0, before |-> View(MessageParser), ret |-> 0]

MsgTypes == {TRADE, QUOTE, HEARTBEAT}

\* what a peer may write next as <<type, sequence number, corrupt>>: a valid
\* frame of each type with the next sequence number, a valid frame that
\* jumps ahead, a frame with a corrupted integrity word and, as its first
\* frame, one with the largest 32-bit sequence number
NextFrames(e) ==
    {<<t, Inc32(e), FALSE>> : t \in MsgTypes}
      \cup {<<t, Inc32(e), TRUE>> : t \in {QUOTE, HEARTBEAT}}
      \cup {<<TRADE, Add32(e, 3), FALSE>>}
      \cup (IF sent = << >> THEN {<<TRADE, U32Max, FALSE>>} ELSE {})

\* size of a piece a TCP read may hand to parse() before the rest arrives
FeedSizes == {25}

Zeros(n) == [i \in 1..n |-> 0]

ParserInit ==
    /\ parser = MessageParser
    /\ steps = << >>
    /\ call = NoCall
    /\ resetAt = 0
    /\ atReset = NoReset
    /\ wire = << >>
    /\ sent = << >>
    /\ emitSeq = U32(0)
    /\ bulks = 0
    /\ fragmented = FALSE

\* the peer writes one frame, possibly with its last byte corrupted; a burst
\* of frames is written before the subscriber starts reading it
Emit(type, seq, corrupt) ==
    /\ Len(sent) < MaxFrames
    /\ call.op # "parse" \/ wire = << >>
    /\ LET f == EncodeFrame(type, seq, 3, Len(sent))
           bytes == IF corrupt THEN CorruptFrame(f) ELSE f
       IN  /\ wire' = wire \o bytes
           /\ sent' = Append(sent, [bytes |-> bytes, type |-> type,
                                    seq |-> seq, valid |-> ~corrupt])
    /\ emitSeq' = seq
    /\ UNCHANGED <<parser, steps, call, resetAt, atReset, bulks, fragmented>>
    /\ UNCHANGED <<cacheVars, engineVars, latencyVars>>

\* the peer writes a header whose type the protocol does not know
EmitBadHeader ==
    /\ Len(sent) < MaxFrames
    /\ call.op # "parse" \/ wire = << >>
    /\ LET bytes == MessageHeader(SUBSCRIBE, Inc32(emitSeq), 7, 3)
       IN  /\ wire' = wire \o bytes
           /\ sent' = Append(sent, [bytes |-> bytes, type |-> SUBSCRIBE,
                                    seq |-> Inc32(emitSeq), valid |-> FALSE])
    /\ UNCHANGED <<parser, steps, call, resetAt, atReset, emitSeq, bulks, fragmented>>
    /\ UNCHANGED <<cacheVars, engineVars, latencyVars>>

DoParse(data) ==
    LET r == parse(parser, data)
    IN  /\ parser' = Last(r.trace)
        /\ steps' = Views(r.trace)
        /\ call' = [op |-> "parse", len |-> Len(data),
                    before |-> View(parser), ret |-> r.ret]
        /\ resetAt' = IF r.ret = 0 /\ Len(data) > 0 THEN Len(parser.out)
                      ELSE resetAt
        /\ atReset' = IF r.ret = 0 /\ Len(data) > 0
                      THEN [sent |-> Len(sent), buffer_used |-> buffer_used(parser)]
                      ELSE atReset

\* parser.parse(data, n) on the next n bytes received
Parse(n) ==
    /\ n <= Len(wire)
    /\ sent # << >>
    /\ DoParse(SubSeq(wire, 1, n))
    /\ wire' = Drop(wire, n)
    /\ UNCHANGED <<sent, emitSeq, bulks, fragmented>>
    /\ UNCHANGED <<cacheVars, engineVars, latencyVars>>

\* parser.parse(data, len) with an input as large as the buffer or larger:
\* the bytes still in flight followed by bytes of no known type
ParseBulk(len) ==
    /\ bulks < MaxBulk
    /\ DoParse(wire \o Zeros(len - Len(wire)))
    /\ wire' = << >>
    /\ bulks' = bulks + 1
    /\ UNCHANGED <<sent, emitSeq, fragmented>>
    /\ UNCHANGED <<cacheVars, engineVars, latencyVars>>

\* parser.reset() on reconnect, when there is something to reset: the bytes
\* in flight on the old connection are lost with it
Reset ==
    /\ call.op = "parse"
    /\ buffer_used(parser) > 0 \/ ~parser.first_message
    /\ parser' = reset(parser)
    /\ steps' = << >>
    /\ call' = [op |-> "reset", len |-> 0, before |-> View(parser), ret |-> 0]
    /\ resetAt' = Len(parser.out)
    /\ atReset' = [sent |-> Len(sent), buffer_used |-> buffer_used(parser)]
    /\ wire' = << >>
    /\ UNCHANGED <<sent, emitSeq, bulks, fragmented>>
    /\ UNCHANGED <<cacheVars, engineVars, latencyVars>>

\* configuration, done once after construction; at most one of the two
\* checks is switched off
set_validate_checksum(validate) ==
    /\ call.op = "none" /\ sent = << >>
    /\ validate # parser.validate_checksum /\ parser.validate_sequence
    /\ parser' = [parser EXCEPT !.validate_checksum = validate]
    /\ UNCHANGED <<steps, call, resetAt, atReset, wire, sent, emitSeq, bulks, fragmented>>
    /\ UNCHANGED <<cacheVars, engineVars, latencyVars>>

set_validate_sequence(validate) ==
    /\ call.op = "none" /\ sent = << >>
    /\ validate # parser.validate_sequence /\ parser.validate_checksum
    /\ parser' = [parser EXCEPT !.validate_sequence = validate]
    /\ UNCHANGED <<steps, call, resetAt, atReset, wire, sent, emitSeq, bulks, fragmented>>
    /\ UNCHANGED <<cacheVars, engineVars, latencyVars>>

ParserNext ==
    \/ \E f \in NextFrames(emitSeq) : Emit(f[1], f[2], f[3])
    \/ EmitBadHeader
    \/ Parse(Len(wire))
    \/ Reset
    \/ \E b \in BOOLEAN : set_validate_checksum(b)
    \/ \E b \in BOOLEAN : set_validate_sequence(b)

\* a connection that is dropped and made again: valid frames with consecutive
\* sequence numbers, read in pieces, and reset() on reconnect
ReconnectNext ==
    \/ \E type \in MsgTypes : Emit(type, Inc32(emitSeq), FALSE)
    \/ \E n \in FeedSizes \cup {Len(wire)} : Parse(n)
    \/ Reset

\* an input stream that may overrun the buffer
BulkNext ==
    \/ \E type \in MsgTypes : Emit(type, Inc32(emitSeq), FALSE)
    \/ \E n \in FeedSizes \cup {Len(wire)} : Parse(n)
    \/ \E len \in {BUFFER_SIZE, BUFFER_SIZE + 1} : ParseBulk(len)

-----------------------------------------------------------------------------
(* A stream of valid frames with consecutive sequence numbers, cut into      *)
(* parse() calls at arbitrary places                                         *)

RECURSIVE Concat(_)
Concat(ss) == IF ss = << >> THEN << >> ELSE Head(ss) \o Concat(Tail(ss))

\* the frames of a valid stream: types ts, sequence numbers from start on
ValidFrames(ts, start) ==
    [i \in 1..Len(ts) |->
        [bytes |-> EncodeFrame(ts[i], Add32(start, i - 1), 3, i),
         type |-> ts[i], seq |-> Add32(start, i - 1), valid |-> TRUE]]

Bytes(frames) == Concat([i \in 1..Len(frames) |-> frames[i].bytes])

StreamInit ==
    /\ parser = MessageParser
    /\ steps = << >>
    /\ call = NoCall
    /\ resetAt = 0
    /\ atReset = NoReset
    /\ bulks = 0
    /\ fragmented = FALSE
    /\ \E n \in 1..MaxStream : \E ts \in [1..n -> MsgTypes] :
         \E start \in {U32(1), U32Max} :
            /\ sent = ValidFrames(ts, start)
            /\ wire = Bytes(sent)
            /\ emitSeq = Add32(start, n - 1)

\* parser.parse() on the next n bytes of the stream
Feed(n) ==
    /\ n <= BUFFER_SIZE - buffer_used(parser)
    /\ parser' = Last(parse(parser, SubSeq(wire, 1, n)).trace)
    /\ wire' = Drop(wire, n)
    /\ fragmented' = (fragmented \/ buffer_used(parser') > 0)
    /\ UNCHANGED <<steps, call, resetAt, atReset, sent, emitSeq, bulks>>
    /\ UNCHANGED <<cacheVars, engineVars, latencyVars>>

StreamNext == \E n \in 1..Len(wire) : Feed(n)

-----------------------------------------------------------------------------
(* cache.h / SymbolCache: one writer thread, reader threads                  *)
(*                                                                           *)
(* Every load and store of a thread is a step of its own, taken in program   *)
(* order (the x86-64 target named in the design notes keeps the order of a   *)
(* thread's stores and of its loads).  The copy in get_snapshot races with   *)
(* the writer's plain stores: each member read yields whatever the slot      *)
(* holds at that moment, old or new.                                         *)

MaxUpdates == 1       \* update_* calls made by a writer that calls anything (SpecCache)
MaxWrites == 3        \* update_* calls made by a writer that goes round the four calls (SpecTracking)
MaxReads == 2         \* get_snapshot calls made by one reader in one behaviour

Readers == {"r1"}

MarketState ==
    [best_bid |-> 0, best_ask |-> 0, bid_quantity |-> 0, ask_quantity |-> 0,
     last_traded_price |-> 0, last_traded_quantity |-> 0,
     last_update_time |-> 0, update_count |-> 0]

\* the members of MarketState in declaration order: the order of a copy
Fields ==
    <<"best_bid", "best_ask", "bid_quantity", "ask_quantity",
      "last_traded_price", "last_traded_quantity",
      "last_update_time", "update_count">>

AtomicMarketState == [sequence |-> 0, data |-> MarketState]

\* the constructor's argument
num_symbols == 2

SymbolCache ==
    [num_symbols_ |-> num_symbols,
     states_ |-> [i \in 0..(num_symbols - 1) |-> AtomicMarketState]]

\* the ids a caller may pass: the slots and one id past them
SymbolIds == 0..num_symbols

WriterIdle ==
    [pc |-> "idle", op |-> "none", symbol_id |-> 0, seq |-> 0,
     todo |-> << >>, args |-> MarketState]

ReaderIdle ==
    [pc |-> "idle", symbol_id |-> 0, seq1 |-> 0, snapshot |-> MarketState,
     todo |-> << >>, retried |-> FALSE, lo |-> 0]

\* number of completed updates of a slot
Completed(symbol_id) == Len(history[symbol_id]) - 1

CacheInit ==
    /\ cache = SymbolCache
    /\ writer = WriterIdle
    /\ readers = [r \in Readers |-> ReaderIdle]
    /\ clock = 1
    /\ history = [i \in 0..(num_symbols - 1) |-> <<MarketState>>]
    /\ ops = [i \in 0..(num_symbols - 1) |-> << >>]
    /\ wcalls = 0
    /\ results = [r \in Readers |-> << >>]

\* an update that takes the last slot for an id past the end
BeginUpdate_clamped(op, symbol_id, stores, args) ==
    /\ writer.pc = "idle"
    /\ wcalls' = wcalls + 1
    /\ LET id == IF symbol_id >= cache.num_symbols_
                 THEN cache.num_symbols_ - 1 ELSE symbol_id
       IN  /\ writer' = [pc |-> "odd", op |-> op, symbol_id |-> id,
                         seq |-> cache.states_[id].sequence,
                         todo |-> stores, args |-> args]
           /\ ops' = [ops EXCEPT ![id] = Append(@, op)]
    /\ UNCHANGED <<cache, readers, clock, history, results>>
    /\ UNCHANGED <<parserVars, engineVars, latencyVars>>

\* entry of an update_* call: the range check and the relaxed load of the
\* counter; stores are the data members the call writes, in program order
BeginUpdate(op, symbol_id, stores, args) ==
    /\ writer.pc = "idle"
    /\ wcalls' = wcalls + 1
    /\ IF symbol_id >= cache.num_symbols_
       THEN UNCHANGED <<writer, ops>>
       ELSE /\ writer' = [pc |-> "odd", op |-> op, symbol_id |-> symbol_id,
                          seq |-> cache.states_[symbol_id].sequence,
                          todo |-> stores, args |-> args]
            /\ ops' = [ops EXCEPT ![symbol_id] = Append(@, op)]
    /\ UNCHANGED <<cache, readers, clock, history, results>>
    /\ UNCHANGED <<parserVars, engineVars, latencyVars>>

update_bid(symbol_id, price, quantity) ==
    BeginUpdate("update_bid", symbol_id,
                <<"best_bid", "bid_quantity", "last_update_time", "update_count">>,
                [MarketState EXCEPT !.best_bid = price, !.bid_quantity = quantity])

update_ask(symbol_id, price, quantity) ==
    BeginUpdate("update_ask", symbol_id,
                <<"best_ask", "ask_quantity", "last_update_time", "update_count">>,
                [MarketState EXCEPT !.best_ask = price, !.ask_quantity = quantity])

\* an update_trade that leaves update_count alone
update_trade_uncounted(symbol_id, price, quantity) ==
    BeginUpdate("update_trade", symbol_id,
                <<"last_traded_price", "last_traded_quantity", "last_update_time">>,
                [MarketState EXCEPT !.last_traded_price = price,
                                    !.last_traded_quantity = quantity])

update_trade(symbol_id, price, quantity) ==
    BeginUpdate("update_trade", symbol_id,
                <<"last_traded_price", "last_traded_quantity",
                  "last_update_time", "update_count">>,
                [MarketState EXCEPT !.last_traded_price = price,
                                    !.last_traded_quantity = quantity])

update_quote(symbol_id, bid_price, bid_qty, ask_price, ask_qty) ==
    BeginUpdate("update_quote", symbol_id,
                <<"best_bid", "bid_quantity", "best_ask", "ask_quantity",
                  "last_update_time", "update_count">>,
                [MarketState EXCEPT !.best_bid = bid_price, !.bid_quantity = bid_qty,
                                    !.best_ask = ask_price, !.ask_quantity = ask_qty])

\* state.sequence.store(seq + 1, release)
WriterStoreOdd ==
    /\ writer.pc = "odd"
    /\ cache' = [cache EXCEPT !.states_[writer.symbol_id].sequence = writer.seq + 1]
    /\ writer' = [writer EXCEPT !.pc = "data"]
    /\ UNCHANGED <<readers, clock, history, ops, wcalls, results>>
    /\ UNCHANGED <<parserVars, engineVars, latencyVars>>

\* the value the writer stores into member f
StoreValue(f) ==
    IF f = "last_update_time" THEN clock
    ELSE IF f = "update_count"
         THEN cache.states_[writer.symbol_id].data.update_count + 1
         ELSE writer.args[f]

\* the next plain store to a member of state.data
WriterStoreData ==
    /\ writer.pc = "data"
    /\ writer.todo # << >>
    /\ LET f == Head(writer.todo)
       IN  /\ cache' = [cache EXCEPT !.states_[writer.symbol_id].data[f] = StoreValue(f)]
           /\ clock' = IF f = "last_update_time" THEN clock + 1 ELSE clock
    /\ writer' = [writer EXCEPT !.todo = Tail(@)]
    /\ UNCHANGED <<readers, history, ops, wcalls, results>>
    /\ UNCHANGED <<parserVars, engineVars, latencyVars>>

\* a writer that puts the counter back to what it was before the update
WriterStoreEven_same ==
    /\ writer.pc = "data"
    /\ writer.todo = << >>
    /\ cache' = [cache EXCEPT !.states_[writer.symbol_id].sequence = writer.seq]
    /\ history' = [history EXCEPT ![writer.symbol_id] =
                      Append(@, cache.states_[writer.symbol_id].data)]
    /\ writer' = WriterIdle
    /\ UNCHANGED <<readers, clock, ops, wcalls, results>>
    /\ UNCHANGED <<parserVars, engineVars, latencyVars>>

\* state.sequence.store(seq + 2, release), and the call returns
WriterStoreEven ==
    /\ writer.pc = "data"
    /\ writer.todo = << >>
    /\ cache' = [cache EXCEPT !.states_[writer.symbol_id].sequence = writer.seq + 2]
    /\ history' = [history EXCEPT ![writer.symbol_id] =
                      Append(@, cache.states_[writer.symbol_id].data)]
    /\ writer' = WriterIdle
    /\ UNCHANGED <<readers, clock, ops, wcalls, results>>
    /\ UNCHANGED <<parserVars, engineVars, latencyVars>>

OnlyQuotes(symbol_id) ==
    \A i \in 1..Len(ops[symbol_id]) : ops[symbol_id][i] = "update_quote"

\* what a get_snapshot call returned, and what the slot went through
\* meanwhile: updates completed at entry (lo) and at return (hi), update
\* calls started by the return (calls)
Returned(r, symbol_id, state) ==
    [symbol_id |-> symbol_id, state |-> state,
     in_range |-> symbol_id < cache.num_symbols_,
     lo |-> readers[r].lo,
     hi |-> IF symbol_id < cache.num_symbols_ THEN Completed(symbol_id) ELSE 0,
     calls |-> IF symbol_id < cache.num_symbols_ THEN Len(ops[symbol_id]) ELSE 0,
     retried |-> readers[r].retried,
     only_quotes |-> IF symbol_id < cache.num_symbols_
                     THEN OnlyQuotes(symbol_id) ELSE FALSE]

\* entry of get_snapshot: the range check
get_snapshot(r, symbol_id) ==
    /\ readers[r].pc = "idle"
    /\ Len(results[r]) < MaxReads
    /\ IF symbol_id >= cache.num_symbols_
       THEN /\ results' = [results EXCEPT ![r] =
                              Append(@, Returned(r, symbol_id, MarketState))]
            /\ UNCHANGED readers
       ELSE /\ readers' = [readers EXCEPT ![r] =
                              [ReaderIdle EXCEPT !.pc = "load1",
                                                 !.symbol_id = symbol_id,
                                                 !.lo = Completed(symbol_id)]]
            /\ UNCHANGED results
    /\ UNCHANGED <<cache, writer, clock, history, ops, wcalls>>
    /\ UNCHANGED <<parserVars, engineVars, latencyVars>>

\* seq1 = state.sequence.load(acquire); an odd value sends the reader round
\* the loop again
ReaderLoadSeq1(r) ==
    /\ readers[r].pc = "load1"
    /\ LET seq1 == cache.states_[readers[r].symbol_id].sequence
       IN  readers' = [readers EXCEPT ![r] =
                          IF seq1 % 2 = 1
                          THEN [@ EXCEPT !.retried = TRUE]
                          ELSE [@ EXCEPT !.pc = "copy", !.seq1 = seq1,
                                         !.todo = Fields]]
    /\ UNCHANGED <<cache, writer, clock, history, ops, wcalls, results>>
    /\ UNCHANGED <<parserVars, engineVars, latencyVars>>

\* snapshot = state.data, one member at a time
ReaderCopy(r) ==
    /\ readers[r].pc = "copy"
    /\ readers[r].todo # << >>
    /\ LET f == Head(readers[r].todo)
       IN  readers' = [readers EXCEPT
                         ![r].snapshot[f] = cache.states_[readers[r].symbol_id].data[f],
                         ![r].todo = Tail(@)]
    /\ UNCHANGED <<cache, writer, clock, history, ops, wcalls, results>>
    /\ UNCHANGED <<parserVars, engineVars, latencyVars>>

\* a pass that let every counter value through
Unchanged_any(seq1, seq2) == TRUE

\* a comparison that fails whatever the counter did
Unchanged_never(seq1, seq2) == FALSE

\* if (seq1 == seq2)
Unchanged(seq1, seq2) == seq1 = seq2

\* a reader that gives up after a pass that failed and returns an empty state
ReaderLoadSeq2_giveup(r) ==
    /\ readers[r].pc = "copy"
    /\ readers[r].todo = << >>
    /\ LET seq2 == cache.states_[readers[r].symbol_id].sequence
       IN  results' = [results EXCEPT ![r] =
              Append(@, Returned(r, readers[r].symbol_id,
                                 IF Unchanged(readers[r].seq1, seq2)
                                 THEN readers[r].snapshot ELSE MarketState))]
    /\ readers' = [readers EXCEPT ![r] = ReaderIdle]
    /\ UNCHANGED <<cache, writer, clock, history, ops, wcalls>>
    /\ UNCHANGED <<parserVars, engineVars, latencyVars>>

\* seq2 = state.sequence.load(acquire): return the copy if the counter did
\* not move, else go round the loop again
ReaderLoadSeq2(r) ==
    /\ readers[r].pc = "copy"
    /\ readers[r].todo = << >>
    /\ LET seq2 == cache.states_[readers[r].symbol_id].sequence
       IN  IF Unchanged(readers[r].seq1, seq2)
           THEN /\ results' = [results EXCEPT ![r] =
                      Append(@, Returned(r, readers[r].symbol_id, readers[r].snapshot))]
                /\ readers' = [readers EXCEPT ![r] = ReaderIdle]
           ELSE \* the members copied in a failed pass are all copied again
                \* before the next comparison: they are not kept
                /\ readers' = [readers EXCEPT ![r].pc = "load1", ![r].retried = TRUE,
                                              ![r].snapshot = MarketState]
                /\ UNCHANGED results
    /\ UNCHANGED <<cache, writer, clock, history, ops, wcalls>>
    /\ UNCHANGED <<parserVars, engineVars, latencyVars>>

\* the writer's calls carry values that tell one call from another, as the
\* test's writer does (bid = k, ask = k + 1)
CacheNext ==
    \/ \E id \in SymbolIds :
          wcalls < MaxUpdates /\ update_bid(id, wcalls + 1, wcalls + 1)
    \/ \E id \in SymbolIds :
          wcalls < MaxUpdates /\ update_ask(id, wcalls + 1, wcalls + 1)
    \/ \E id \in SymbolIds :
          wcalls < MaxUpdates /\ update_trade(id, wcalls + 1, wcalls + 1)
    \/ \E id \in SymbolIds :
          wcalls < MaxUpdates
             /\ update_quote(id, wcalls + 1, wcalls + 1, wcalls + 2, wcalls + 1)
    \/ WriterStoreOdd
    \/ WriterStoreData
    \/ WriterStoreEven
    \/ \E r \in Readers : \E id \in SymbolIds : get_snapshot(r, id)
    \/ \E r \in Readers : ReaderLoadSeq1(r)
    \/ \E r \in Readers : ReaderCopy(r)
    \/ \E r \in Readers : ReaderLoadSeq2(r)

\* test_update_tracking's writer: update_quote, update_trade, update_bid,
\* update_ask on symbol 0, round and round
UpdateCycle == <<"update_quote", "update_trade", "update_bid", "update_ask">>

\* the call the writer makes next is op: its first call is any of the four
Follows(op) ==
    LET done == ops[0]
    IN  IF done = << >> THEN TRUE
        ELSE \E i \in 1..4 : /\ UpdateCycle[i] = done[Len(done)]
                              /\ UpdateCycle[(i % 4) + 1] = op

\* that writer beside a reader of symbol 0 (test_concurrent_reads' reader)
TrackingNext ==
    \/ /\ wcalls < MaxWrites /\ Follows("update_quote")
       /\ update_quote(0, wcalls + 1, wcalls + 1, wcalls + 2, wcalls + 1)
    \/ /\ wcalls < MaxWrites /\ Follows("update_trade")
       /\ update_trade(0, wcalls + 1, wcalls + 1)
    \/ /\ wcalls < MaxWrites /\ Follows("update_bid")
       /\ update_bid(0, wcalls + 1, wcalls + 1)
    \/ /\ wcalls < MaxWrites /\ Follows("update_ask")
       /\ update_ask(0, wcalls + 1, wcalls + 1)
    \/ WriterStoreOdd
    \/ WriterStoreData
    \/ WriterStoreEven
    \/ \E r \in Readers : get_snapshot(r, 0)
    \/ \E r \in Readers : ReaderLoadSeq1(r)
    \/ \E r \in Readers : ReaderCopy(r)
    \/ \E r \in Readers : ReaderLoadSeq2(r)

\* the next store of the writer thread inside an update_* call
WriterStep == WriterStoreOdd \/ WriterStoreData \/ WriterStoreEven

\* the next load of reader r inside a get_snapshot call
ReaderStep(r) == ReaderLoadSeq1(r) \/ ReaderCopy(r) \/ ReaderLoadSeq2(r)

\* a writer of symbol 0 that makes a few update_quote calls and then none,
\* beside readers of symbol 0
SnapshotNext ==
    \/ /\ wcalls < MaxUpdates
       /\ update_quote(0, wcalls + 1, wcalls + 1, wcalls + 2, wcalls + 1)
    \/ WriterStep
    \/ \E r \in Readers : get_snapshot(r, 0)
    \/ \E r \in Readers : ReaderStep(r)
-----------------------------------------------------------------------------
(* exchange_simulator.h / ExchangeSimulator: the publisher's engine and the   *)
(* kernel objects it works on (descriptors, listen backlog, send buffers)    *)

MaxPeers == 2         \* connections made to the listener in one behaviour
MaxTicks == 2         \* emissions in one behaviour
MaxEmissions == 4     \* emissions in one behaviour of the paced engine
MaxSymbols == 3       \* largest num_symbols an engine is built with
SendBufferBytes == 64 \* send buffer capacity of a peer that never reads

EAGAIN == "EAGAIN"
ECONNRESET == "ECONNRESET"
NoError == "none"

\* how a peer reads: "fast" drains its socket at once (every send to it is a
\* full write), "slow" reads at its own pace or goes away (a send to it may
\* end in any way), "stalled" never reads (what is sent piles up)
PeerKinds == {"fast", "slow", "stalled"}

\* the constructor's num_symbols argument
engine_symbols == 2

ClientConnection(socket_fd) ==
    [fd |-> socket_fd, active |-> TRUE, messages_sent |-> 0, bytes_sent |-> 0,
     last_send_time_ns |-> 0]

\* the object after construction; sequence_number_ is the tick generator's
ExchangeSimulator ==
    [listen_fd_ |-> -1, epoll_fd_ |-> -1, running_ |-> FALSE,
     num_symbols_ |-> engine_symbols,
     tick_rate_ |-> 100000, tick_interval_ns_ |-> 10000,
     last_tick_time_ns_ |-> 0,
     clients_ |-> << >>,
     total_messages_sent_ |-> 0, total_bytes_sent_ |-> 0,
     fault_injection_enabled_ |-> FALSE,
     next_symbol_index_ |-> 0,
     sequence_number_ |-> 0]

\* the clock when the engine is constructed
Epoch == 1

\* descriptors 0, 1 and 2 are the standard streams; the kernel hands out the
\* lowest free number
Descriptors == 3..(MaxPeers + 5)

LowestFree(open) ==
    CHOOSE n \in Descriptors :
        n \notin open /\ \A m \in Descriptors : m < n => m \in open

NoRun ==
    [emitted |-> FALSE, len |-> 0, before |-> << >>, socks |-> << >>,
     after |-> << >>, log |-> << >>, closed |-> << >>]

EngineInit ==
    /\ sim = ExchangeSimulator
    /\ fds = {}
    /\ socks = << >>
    /\ backlog = [pending |-> << >>, edge |-> FALSE]
    /\ now = Epoch
    /\ conns = 0
    /\ ticks = 0
    /\ lastRun = NoRun
    /\ stopped = FALSE
    /\ g_running = TRUE
    /\ generated = << >>

\* the engine together with the kernel objects a handler changes, and what
\* the handler did to them (sends, closes, generate_tick calls)
World ==
    [sim |-> sim, fds |-> fds, socks |-> socks, backlog |-> backlog,
     log |-> << >>, closed |-> << >>, calls |-> << >>]

\* close(fd)
Close(w, fd) ==
    [w EXCEPT !.fds = @ \ {fd},
              !.socks = [f \in (DOMAIN @) \ {fd} |-> @[f]],
              !.closed = Append(@, fd)]

\* start(), called once on the constructed object: the listener and the
\* poller are created and the listener is registered; failed names the step
\* that fails, if one does, and then the descriptors opened so far are
\* closed again
start(failed) ==
    /\ ~sim.running_
    /\ sim.listen_fd_ = -1
    /\ sim.last_tick_time_ns_ = 0
    /\ LET lfd == LowestFree(fds)
           efd == LowestFree(fds \cup {lfd})
       IN  CASE failed = "socket" ->
                  /\ sim' = [sim EXCEPT !.listen_fd_ = lfd]
                  /\ UNCHANGED fds
             [] failed = "epoll" ->
                  /\ sim' = [sim EXCEPT !.listen_fd_ = lfd]
                  /\ UNCHANGED fds
             [] failed = "add" ->
                  /\ sim' = [sim EXCEPT !.listen_fd_ = lfd, !.epoll_fd_ = efd]
                  /\ UNCHANGED fds
             [] OTHER ->
                  /\ sim' = [sim EXCEPT !.listen_fd_ = lfd, !.epoll_fd_ = efd,
                                        !.running_ = TRUE,
                                        !.last_tick_time_ns_ = now]
                  /\ fds' = fds \cup {lfd, efd}
    /\ lastRun' = NoRun
    /\ stopped' = FALSE
    /\ UNCHANGED <<socks, backlog, now, conns, ticks, generated>>
    /\ UNCHANGED <<parserVars, cacheVars, latencyVars, g_running>>

RECURSIVE CloseActive(_, _)
CloseActive(w, clients) ==
    IF clients = << >> THEN w
    ELSE CloseActive(IF Head(clients).active THEN Close(w, Head(clients).fd) ELSE w,
                     Tail(clients))

\* a stop() that closes everything and leaves running_ set
stop_keep ==
    /\ LET w1 == CloseActive(World, sim.clients_)
           w2 == [w1 EXCEPT !.sim.clients_ = << >>]
           w3 == IF w2.sim.epoll_fd_ >= 0
                 THEN [Close(w2, w2.sim.epoll_fd_) EXCEPT !.sim.epoll_fd_ = -1]
                 ELSE w2
           w4 == IF w3.sim.listen_fd_ >= 0
                 THEN [Close(w3, w3.sim.listen_fd_) EXCEPT !.sim.listen_fd_ = -1]
                 ELSE w3
       IN  /\ sim' = w4.sim
           /\ fds' = w4.fds
           /\ socks' = w4.socks
           /\ backlog' = [pending |-> << >>, edge |-> FALSE]
    /\ lastRun' = NoRun
    /\ stopped' = TRUE
    /\ UNCHANGED <<now, conns, ticks, generated>>
    /\ UNCHANGED <<parserVars, cacheVars, latencyVars, g_running>>

\* stop(): nothing is done unless running_ is set; the connections still
\* queued on the listener go with it
stop ==
    /\ IF ~sim.running_
       THEN UNCHANGED <<sim, fds, socks, backlog>>
       ELSE LET w1 == CloseActive([World EXCEPT !.sim.running_ = FALSE], sim.clients_)
                w2 == [w1 EXCEPT !.sim.clients_ = << >>]
                w3 == IF w2.sim.epoll_fd_ >= 0
                      THEN [Close(w2, w2.sim.epoll_fd_) EXCEPT !.sim.epoll_fd_ = -1]
                      ELSE w2
                w4 == IF w3.sim.listen_fd_ >= 0
                      THEN [Close(w3, w3.sim.listen_fd_) EXCEPT !.sim.listen_fd_ = -1]
                      ELSE w3
            IN  /\ sim' = w4.sim
                /\ fds' = w4.fds
                /\ socks' = w4.socks
                /\ backlog' = [pending |-> << >>, edge |-> FALSE]
    /\ lastRun' = NoRun
    /\ stopped' = TRUE
    /\ UNCHANGED <<now, conns, ticks, generated>>
    /\ UNCHANGED <<parserVars, cacheVars, latencyVars, g_running>>

\* a peer connects: the kernel completes the handshake and queues the
\* connection on the listener
Connect(kind) ==
    /\ sim.listen_fd_ \in fds
    /\ conns < MaxPeers
    /\ backlog' = [pending |-> Append(backlog.pending, kind), edge |-> TRUE]
    /\ conns' = conns + 1
    /\ UNCHANGED <<sim, fds, socks, now, ticks, lastRun, stopped, generated>>
    /\ UNCHANGED <<parserVars, cacheVars, latencyVars, g_running>>

\* handle_new_connection(): accept until the backlog is drained or accept
\* fails; n connections are accepted, the socket setup of those in bad fails
RECURSIVE handle_new_connection(_, _, _)
handle_new_connection(w, n, bad) ==
    IF n = 0 \/ w.backlog.pending = << >> THEN w
    ELSE LET client_fd == LowestFree(w.fds)
             kind == Head(w.backlog.pending)
             w1 == [w EXCEPT !.backlog.pending = Tail(@),
                             !.fds = @ \cup {client_fd},
                             !.socks = [f \in (DOMAIN @) \cup {client_fd} |->
                                          IF f = client_fd
                                          THEN [kind |-> kind, queued |-> 0, got |-> << >>]
                                          ELSE @[f]]]
             w2 == IF n \in bad
                   THEN Close(w1, client_fd)
                   ELSE [w1 EXCEPT !.sim.clients_ = Append(@, ClientConnection(client_fd))]
         IN  handle_new_connection(w2, n - 1, bad)

\* how a send to a peer that reads at its own pace may end
SendOutcomes == {"full", "would_block", "short", "reset"}

\* the peers whose sends may end in any way
SlowFds(w) == {f \in DOMAIN w.socks : w.socks[f].kind = "slow"}

\* the return value and errno of send(fd, data, len, MSG_NOSIGNAL)
SendResult(w, fd, len, res) ==
    LET sock == w.socks[fd]
        free == SendBufferBytes - sock.queued
    IN  IF sock.kind = "fast" THEN [sent |-> len, errno |-> NoError]
        ELSE IF sock.kind = "stalled"
        THEN IF free >= len THEN [sent |-> len, errno |-> NoError]
             ELSE IF free = 0 THEN [sent |-> -1, errno |-> EAGAIN]
             ELSE [sent |-> free, errno |-> NoError]
        ELSE CASE res[fd] = "full" -> [sent |-> len, errno |-> NoError]
               [] res[fd] = "would_block" -> [sent |-> -1, errno |-> EAGAIN]
               [] res[fd] = "short" -> [sent |-> len - 1, errno |-> NoError]
               [] OTHER -> [sent |-> -1, errno |-> ECONNRESET]

\* the sequence number of the frame built in this handler
Stamped(w) == w.calls[Len(w.calls)].sequence_number

\* what a send leaves with the kernel: the bytes it took, in the buffer of
\* a peer that never reads, and the frame on the peer's stream if it took
\* all of it
Queue(w, fd, r, len) ==
    LET w1 == IF w.socks[fd].kind = "stalled" /\ r.sent > 0
              THEN [w EXCEPT !.socks[fd].queued = @ + r.sent]
              ELSE w
    IN  IF r.sent = len
        THEN [w1 EXCEPT !.socks[fd].got = Append(@, Stamped(w))]
        ELSE w1

\* a send_to_client that gives up on a peer whose buffer is full
send_to_client_strict(client, r, len, t) ==
    IF r.sent # len
    THEN [ok |-> FALSE, client |-> client]
    ELSE [ok |-> TRUE,
          client |-> [client EXCEPT !.messages_sent = @ + 1,
                                    !.bytes_sent = @ + len,
                                    !.last_send_time_ns = t]]

\* send_to_client(), given what send() returned and the clock value t
send_to_client(client, r, len, t) ==
    IF r.sent < 0
    THEN IF r.errno = EAGAIN
         THEN [ok |-> TRUE, client |-> client]
         ELSE [ok |-> FALSE, client |-> client]
    ELSE IF r.sent # len
    THEN [ok |-> FALSE, client |-> client]
    ELSE [ok |-> TRUE,
          client |-> [client EXCEPT !.messages_sent = @ + 1,
                                    !.bytes_sent = @ + len,
                                    !.last_send_time_ns = t]]

\* a cleanup_client that closes the handle and leaves the entry in the list
cleanup_client_keep(w, index) ==
    LET clients == w.sim.clients_
        w1 == Close(w, clients[index].fd)
    IN  [w1 EXCEPT !.sim.clients_ = [clients EXCEPT ![index].active = FALSE]]

\* a cleanup_client that pops the last entry without the swap
cleanup_client_noswap(w, index) ==
    LET clients == w.sim.clients_
        w1 == Close(w, clients[index].fd)
        closed == [clients EXCEPT ![index].active = FALSE]
    IN  [w1 EXCEPT !.sim.clients_ = SubSeq(closed, 1, Len(closed) - 1)]

\* a cleanup_client that takes the engine down with the peer
cleanup_client_halt(w, index) ==
    LET clients == w.sim.clients_
        w1 == Close(w, clients[index].fd)
        swapped == [clients EXCEPT ![index] = clients[Len(clients)]]
    IN  [w1 EXCEPT !.sim.clients_ = SubSeq(swapped, 1, Len(swapped) - 1),
                   !.sim.running_ = FALSE]

\* a cleanup_client that forgets to close the handle
cleanup_client_leak(w, index) ==
    LET clients == w.sim.clients_
        swapped == [clients EXCEPT ![index] = clients[Len(clients)]]
    IN  [w EXCEPT !.sim.clients_ = SubSeq(swapped, 1, Len(swapped) - 1)]

\* cleanup_client(index); the list is indexed from 1 here
cleanup_client(w, index) ==
    IF index > Len(w.sim.clients_) THEN w
    ELSE LET clients == w.sim.clients_
             client == clients[index]
             w1 == IF client.active THEN Close(w, client.fd) ELSE w
             closed == [client EXCEPT !.active = FALSE]
             swapped == IF index < Len(clients)
                        THEN [clients EXCEPT ![index] = clients[Len(clients)],
                                             ![Len(clients)] = closed]
                        ELSE [clients EXCEPT ![index] = closed]
         IN  [w1 EXCEPT !.sim.clients_ = SubSeq(swapped, 1, Len(swapped) - 1)]

\* a loop that starts over after a removal
NextIndex_restart(i, ok) == IF ok THEN i + 1 ELSE 1

\* a loop that moves on after a removal
NextIndex_skip(i, ok) == i + 1

\* the loop index after the send to clients_[i]: it stays after a removal
NextIndex(i, ok) == IF ok THEN i + 1 ELSE i

\* a pass over the list that sends to a peer a second time
Attempt_twice(w, i, len, res) ==
    LET client == w.sim.clients_[i]
        r == SendResult(w, client.fd, len, res)
        entry == [fd |-> client.fd, sent |-> r.sent, errno |-> r.errno]
    IN  [r |-> r,
         w |-> [Queue(w, client.fd, r, len) EXCEPT !.log = @ \o <<entry, entry>>]]

\* the send() made for clients_[i]
Attempt(w, i, len, res) ==
    LET client == w.sim.clients_[i]
        r == SendResult(w, client.fd, len, res)
    IN  [r |-> r,
         w |-> [Queue(w, client.fd, r, len) EXCEPT
                  !.log = Append(@, [fd |-> client.fd, sent |-> r.sent,
                                     errno |-> r.errno])]]

\* the loop of broadcast_message() from index i on
RECURSIVE BroadcastLoop(_, _, _, _, _)
BroadcastLoop(w, i, len, res, t) ==
    IF i > Len(w.sim.clients_) THEN w
    ELSE LET client == w.sim.clients_[i]
         IN  IF ~client.active THEN BroadcastLoop(w, i + 1, len, res, t)
             ELSE LET a == Attempt(w, i, len, res)
                      s == send_to_client(client, a.r, len, t)
                      w1 == [a.w EXCEPT !.sim.clients_[i] = s.client]
                  IN  IF ~s.ok
                      THEN BroadcastLoop(cleanup_client(w1, i), NextIndex(i, FALSE),
                                         len, res, t)
                      ELSE BroadcastLoop(w1, NextIndex(i, TRUE), len, res, t)

\* a broadcast that counts a frame only if some peer took all of it
broadcast_message_delivered(w, len, res, t) ==
    IF w.sim.clients_ = << >> THEN w
    ELSE LET w1 == BroadcastLoop(w, 1, len, res, t)
         IN  IF \E k \in 1..Len(w1.log) : w1.log[k].sent = len
             THEN [w1 EXCEPT !.sim.total_messages_sent_ = @ + 1,
                             !.sim.total_bytes_sent_ = @ + len]
             ELSE w1

\* broadcast_message(data, len)
broadcast_message(w, len, res, t) ==
    IF w.sim.clients_ = << >> THEN w
    ELSE LET w1 == BroadcastLoop(w, 1, len, res, t)
         IN  [w1 EXCEPT !.sim.total_messages_sent_ = @ + 1,
                        !.sim.total_bytes_sent_ = @ + len]

\* a generator that takes the next sequence number before the range check
generate_tick_eager(w, symbol_id, draw) ==
    LET w1 == [w EXCEPT !.sim.sequence_number_ = @ + 1]
    IN  [is_trade |-> draw /\ symbol_id < w.sim.num_symbols_,
         w |-> [w1 EXCEPT !.calls = Append(@, [symbol_id |-> symbol_id,
                                               ok |-> symbol_id < w.sim.num_symbols_,
                                               sequence_number |->
                                                  IF symbol_id < w.sim.num_symbols_
                                                  THEN w1.sim.sequence_number_
                                                  ELSE 0])]]

\* TickGenerator::generate_tick(): the next sequence number is stamped on
\* the header; draw is the generator's choice between a trade and a quote
generate_tick(w, symbol_id, draw) ==
    IF symbol_id >= w.sim.num_symbols_
    THEN [is_trade |-> FALSE,
          w |-> [w EXCEPT !.calls = Append(@, [symbol_id |-> symbol_id,
                                               ok |-> FALSE,
                                               sequence_number |-> 0])]]
    ELSE [is_trade |-> draw,
          w |-> [w EXCEPT !.sim.sequence_number_ = @ + 1,
                          !.calls = Append(@, [symbol_id |-> symbol_id,
                                               ok |-> TRUE,
                                               sequence_number |->
                                                  w.sim.sequence_number_ + 1])]]

\* generate_tick_for_symbol(): a TRADE or a QUOTE frame is built and broadcast
generate_tick_for_symbol(w, symbol_id, draw, res, t) ==
    LET g == generate_tick(w, symbol_id, draw)
    IN  broadcast_message(g.w, IF g.is_trade THEN TradeSize ELSE QuoteSize, res, t)

\* a cursor that runs on past the last symbol
generate_and_broadcast_tick_on(w, draw, res, t) ==
    LET symbol_id == w.sim.next_symbol_index_
        w1 == [w EXCEPT !.sim.next_symbol_index_ = (@ + 1) % (w.sim.num_symbols_ + 1)]
    IN  generate_tick_for_symbol(w1, symbol_id, draw, res, t)

generate_and_broadcast_tick(w, draw, res, t) ==
    LET symbol_id == w.sim.next_symbol_index_ % 65536   \* uint16_t
        w1 == [w EXCEPT !.sim.next_symbol_index_ = (@ + 1) % w.sim.num_symbols_]
    IN  generate_tick_for_symbol(w1, symbol_id, draw, res, t)

\* a pacing check that lets every call emit
Elapsed_always(s, current_time) == TRUE

\* current_time - last_tick_time_ns_ >= tick_interval_ns_
Elapsed(s, current_time) ==
    current_time - s.last_tick_time_ns_ >= s.tick_interval_ns_

\* run(): one pass of the event loop.  event is what epoll_wait reports for
\* the listener, n and bad say how the accepts go, current_time is the clock
\* value read, draw is the generator's choice; how the sends to the peers
\* that read at their own pace end is chosen per peer
run(event, n, bad, current_time, draw) ==
    /\ sim.running_
    /\ event = "in" <=> backlog.edge
    /\ event # "in" => n = 0 /\ bad = {}
    /\ (event = "error" \/ ~Elapsed(sim, current_time)) => ~draw
    /\ LET w0 == [World EXCEPT !.backlog.edge = FALSE]
       IN  IF event = "error"
           THEN \* EPOLLERR or EPOLLHUP on the listener
                /\ sim' = [sim EXCEPT !.running_ = FALSE]
                /\ lastRun' = NoRun
                /\ UNCHANGED <<fds, socks, backlog, now, ticks, generated>>
           ELSE LET w1 == IF event = "in" THEN handle_new_connection(w0, n, bad)
                          ELSE w0
                    due == Elapsed(w1.sim, current_time)
                IN  /\ \E res \in [IF due THEN SlowFds(w1) ELSE {} -> SendOutcomes] :
                        \E w2 \in {IF due
                                    THEN [generate_and_broadcast_tick(
                                            [w1 EXCEPT !.log = << >>, !.closed = << >>],
                                            draw, res, current_time)
                                          EXCEPT !.sim.last_tick_time_ns_ = current_time]
                                    ELSE w1} :
                            /\ sim' = w2.sim
                            /\ fds' = w2.fds
                            /\ socks' = w2.socks
                            /\ backlog' = w2.backlog
                            /\ lastRun' =
                                 IF due
                                 THEN [emitted |-> TRUE,
                                       len |-> IF draw THEN TradeSize ELSE QuoteSize,
                                       before |-> w1.sim.clients_, socks |-> w1.socks,
                                       after |-> w2.sim.clients_, log |-> w2.log,
                                       closed |-> w2.closed]
                                 ELSE NoRun
                            /\ generated' = generated \o
                                 [k \in 1..Len(w2.calls) |->
                                    [symbol_id |-> w2.calls[k].symbol_id,
                                     ok |-> w2.calls[k].ok,
                                     sequence_number |-> w2.calls[k].sequence_number,
                                     at |-> current_time,
                                     since |-> sim.last_tick_time_ns_,
                                     interval |-> sim.tick_interval_ns_]]
                    /\ now' = current_time
                    /\ ticks' = IF due THEN ticks + 1 ELSE ticks
    /\ UNCHANGED <<conns, stopped>>
    /\ UNCHANGED <<parserVars, cacheVars, latencyVars, g_running>>

\* the engine with peers that read fast and peers that read at their own pace
EngineNext ==
    \/ \E failed \in {"none", "socket", "epoll", "add"} : start(failed)
    \/ stop
    \/ \E kind \in {"fast", "slow"} : Connect(kind)
    \/ \E event \in {"none", "in", "error"} :
         \E n \in 0..Len(backlog.pending) : \E bad \in SUBSET (1..n) :
           \E current_time \in {now, now + sim.tick_interval_ns_} :
             \E draw \in BOOLEAN :
                /\ Elapsed(sim, current_time) => ticks < MaxTicks
                /\ run(event, n, bad, current_time, draw)

\* the engine with peers that read fast and peers that never read
SaturationNext ==
    \/ \E failed \in {"none", "socket", "epoll", "add"} : start(failed)
    \/ stop
    \/ \E kind \in {"fast", "stalled"} : Connect(kind)
    \/ \E event \in {"none", "in", "error"} :
         \E n \in 0..Len(backlog.pending) : \E bad \in SUBSET (1..n) :
           \E current_time \in {now, now + sim.tick_interval_ns_} :
             \E draw \in BOOLEAN :
                /\ Elapsed(sim, current_time) => ticks < MaxTicks
                /\ run(event, n, bad, current_time, draw)

\* the rates passed to set_tick_rate
Rates == {0, 100000, 200000}

\* set_tick_rate(ticks_per_second)
set_tick_rate(ticks_per_second) ==
    /\ sim' = [sim EXCEPT !.tick_rate_ = ticks_per_second,
                          !.tick_interval_ns_ =
                             IF ticks_per_second > 0
                             THEN 1000000000 \div ticks_per_second
                             ELSE @]
    /\ UNCHANGED <<fds, socks, backlog, now, conns, ticks, lastRun, stopped, generated>>
    /\ UNCHANGED <<parserVars, cacheVars, latencyVars, g_running>>

\* ExchangeSimulator(port, num_symbols) with another symbol count
Build(symbols) ==
    /\ sim = ExchangeSimulator
    /\ ~stopped
    /\ symbols # engine_symbols
    /\ sim' = [ExchangeSimulator EXCEPT !.num_symbols_ = symbols]
    /\ UNCHANGED <<fds, socks, backlog, now, conns, ticks, lastRun, stopped, generated>>
    /\ UNCHANGED <<parserVars, cacheVars, latencyVars, g_running>>

\* the clock values run() may read: time stands still, or half an interval
\* or a whole one has passed
ClockReads == {now, now + sim.tick_interval_ns_ \div 2, now + sim.tick_interval_ns_}

\* the engine alone, paced by its clock, with the rate changed under way
PacingNext ==
    \/ start("none")
    \/ stop
    \/ \E ticks_per_second \in Rates : set_tick_rate(ticks_per_second)
    \/ \E event \in {"none", "error"} :
         \E current_time \in ClockReads : \E draw \in BOOLEAN :
            /\ Elapsed(sim, current_time) => ticks < MaxTicks
            /\ run(event, 0, {}, current_time, draw)

\* engines of every symbol count with fast peers, emitting at every interval
RoundRobinNext ==
    \/ \E symbols \in 1..MaxSymbols : Build(symbols)
    \/ start("none")
    \/ stop
    \/ Connect("fast")
    \/ \E event \in {"none", "in"} :
         \E current_time \in {now, now + sim.tick_interval_ns_} :
           \E draw \in BOOLEAN :
              /\ Elapsed(sim, current_time) => ticks < MaxEmissions
              /\ run(event, Len(backlog.pending), {}, current_time, draw)

\* gen.generate_tick(symbol_id, header) called on the generator directly
GenerateTick(symbol_id, draw) ==
    /\ Len(generated) < MaxEmissions
    /\ LET g == generate_tick(World, symbol_id, draw)
       IN  /\ sim' = g.w.sim
           /\ generated' = generated \o
                [k \in 1..Len(g.w.calls) |->
                   [symbol_id |-> g.w.calls[k].symbol_id,
                    ok |-> g.w.calls[k].ok,
                    sequence_number |-> g.w.calls[k].sequence_number,
                    at |-> now,
                    since |-> sim.last_tick_time_ns_,
                    interval |-> sim.tick_interval_ns_]]
    /\ UNCHANGED <<fds, socks, backlog, now, conns, ticks, lastRun, stopped>>
    /\ UNCHANGED <<parserVars, cacheVars, latencyVars, g_running>>

\* test_tick_generation, with ids in and out of range
GeneratorNext ==
    \E symbol_id \in 0..(engine_symbols + 1) : \E draw \in BOOLEAN :
        GenerateTick(symbol_id, draw)


\* one call of run() by the main loop; accept may fail with an error other
\* than would-block after fewer connections than are pending
RunCall ==
    \E event \in {"none", "in"} :
      \E n \in 0..Len(backlog.pending) : \E bad \in SUBSET (1..n) :
        \E current_time \in {now, now + sim.tick_interval_ns_} :
          \E draw \in BOOLEAN :
             /\ Elapsed(sim, current_time) => ticks < MaxTicks
             /\ run(event, n, bad, current_time, draw)

\* a run() call would change something: it has a listener event to handle,
\* a tick to emit, or the record of the last call to clear
RunChanges ==
    sim.running_ /\ (backlog.edge \/ lastRun # NoRun \/ ticks < MaxTicks)

\* a call of run() made before the tick interval has elapsed
RunBetween ==
    \E event \in {"none", "in"} :
      \E n \in 0..Len(backlog.pending) : \E bad \in SUBSET (1..n) :
         /\ ~Elapsed(sim, now)
         /\ run(event, n, bad, now, FALSE)

\* a started engine whose main loop keeps calling run() while peers connect
AcceptNext ==
    \/ start("none")
    \/ Connect("fast")
    \/ RunCall

\* signal_handler(SIGINT or SIGTERM): g_running = false
signal_handler ==
    /\ g_running
    /\ g_running' = FALSE
    /\ UNCHANGED <<sim, fds, socks, backlog, now, conns, ticks, lastRun, stopped, generated>>
    /\ UNCHANGED <<parserVars, cacheVars, latencyVars>>

\* main has not called start() yet
BeforeLoop == ~stopped /\ sim.listen_fd_ = -1

\* main is at its loop: start() has succeeded, stop() has not been called
AtLoop == ~stopped /\ sim.listen_fd_ # -1

\* main calls start()
MainStart == BeforeLoop /\ start("none")

\* main calls run(), for as long as the flag polled before each iteration is
\* set; and run() called once more by whoever holds the stopped engine
MainLoop ==
    /\ stopped \/ (AtLoop /\ g_running)
    /\ \E event \in {"none", "in", "error"} :
         \E current_time \in {now, now + sim.tick_interval_ns_} :
           \E draw \in BOOLEAN :
              /\ Elapsed(sim, current_time) => ticks < MaxTicks
              /\ run(event, Len(backlog.pending), {}, current_time, draw)

\* main has left its loop and calls stop()
MainStop == AtLoop /\ ~g_running /\ stop

\* the server process: main, the signal and the peers that connect
MainNext ==
    \/ MainStart
    \/ MainLoop
    \/ MainStop
    \/ signal_handler
    \/ Connect("fast")

\* the engine emitting at every interval to one subscriber at a time, which
\* reads fast or at its own pace and connects again after it was dropped
DeliveryNext ==
    \/ start("none")
    \/ \E kind \in {"fast", "slow"} :
          /\ sim.clients_ = << >>
          /\ backlog.pending = << >>
          /\ Connect(kind)
    \/ \E event \in {"none", "in"} :
         \E current_time \in {now, now + sim.tick_interval_ns_} :
           \E draw \in BOOLEAN :
              /\ Elapsed(sim, current_time) => ticks < MaxEmissions
              /\ run(event, Len(backlog.pending), {}, current_time, draw)
-----------------------------------------------------------------------------
(* latency_tracker.h / LatencyTracker: threads recording into one histogram  *)
(*                                                                           *)
(* Every member is a std::atomic; each atomic load, compare-exchange and     *)
(* fetch-add of record() is a step of its own.                               *)

MaxRecords == 3       \* record() calls made on one tracker in one behaviour
MaxBucketSize == 2    \* largest bucket_size_ns a tracker is built with
MaxLatencyNs == 5     \* largest max_latency_ns a tracker is built with

\* std::numeric_limits<uint64_t>::max(), cut to the largest integer of the
\* model; the samples are far below either
UINT64_MAX == 2147483647

Threads == {"t1", "t2"}

\* the latencies passed to record(): within the tracked range, at its end
\* and beyond it
Samples == {1, 2, 5, 9}

LatencyStats ==
    [min_ns |-> 0, max_ns |-> 0, mean_ns |-> 0, p50_ns |-> 0, p95_ns |-> 0,
     p99_ns |-> 0, p999_ns |-> 0, sample_count |-> 0]

\* no tracker built yet
NoTracker ==
    [bucket_size_ns_ |-> 0, max_latency_ns_ |-> 0, histogram_ |-> << >>,
     min_latency_ |-> 0, max_latency_ |-> 0,
     total_samples_ |-> 0, total_latency_ |-> 0]

Constructed(tr) == tr.histogram_ # << >>

\* the object after LatencyTracker::LatencyTracker(bucket_size_ns, max_latency_ns);
\* histogram_[i + 1] is the code's histogram_[i]
LatencyTracker(bucket_size_ns, max_latency_ns) ==
    LET num_buckets == (max_latency_ns \div bucket_size_ns) + 1
    IN  [bucket_size_ns_ |-> bucket_size_ns,
         max_latency_ns_ |-> max_latency_ns,
         histogram_ |-> [i \in 1..num_buckets |-> 0],
         min_latency_ |-> UINT64_MAX,
         max_latency_ |-> 0,
         total_samples_ |-> 0,
         total_latency_ |-> 0]

get_num_buckets(tr) == Len(tr.histogram_)

\* the locals of a record() call
RecorderIdle ==
    [pc |-> "idle", latency_ns |-> 0, current_min |-> 0, current_max |-> 0,
     i |-> 0, stats |-> [min_ns |-> 0, max_ns |-> 0, mean_ns |-> 0, p50_ns |-> 0,
                         p95_ns |-> 0, p99_ns |-> 0, p999_ns |-> 0,
                         sample_count |-> 0]]

\* a compare-exchange that stores whatever the member holds by now
compare_exchange_weak_blind(actual, expected, desired, spurious) ==
    [ok |-> TRUE, actual |-> desired, expected |-> expected]

\* member.compare_exchange_weak(expected, desired): stores desired if the
\* member holds expected (unless it fails spuriously), else loads the
\* member's value into expected
compare_exchange_weak(actual, expected, desired, spurious) ==
    IF actual = expected /\ ~spurious
    THEN [ok |-> TRUE, actual |-> desired, expected |-> expected]
    ELSE [ok |-> FALSE, actual |-> actual, expected |-> actual]

\* a loop that stores every sample as the new maximum
Above_always(latency_ns, current_max) == TRUE

\* while (latency_ns > current_max)
Above(latency_ns, current_max) == latency_ns > current_max

\* while (latency_ns < current_min)
Below(latency_ns, current_min) == latency_ns < current_min

\* the bucket a sample is counted in (0-based), the last one if it is beyond
bucket_index(tr, latency_ns) ==
    LET i == latency_ns \div tr.bucket_size_ns_
    IN  IF i >= Len(tr.histogram_) THEN Len(tr.histogram_) - 1 ELSE i

\* the next atomic access of a record() call with locals th on tracker tr:
\* the tracker and the locals after it
record_step(tr, th, spurious) ==
    CASE th.pc = "load_min" ->
           LET cur == tr.min_latency_
           IN  [tr |-> tr,
                th |-> [th EXCEPT !.current_min = cur,
                                  !.pc = IF Below(th.latency_ns, cur)
                                         THEN "cas_min" ELSE "load_max"]]
      [] th.pc = "cas_min" ->
           LET c == compare_exchange_weak(tr.min_latency_, th.current_min,
                                          th.latency_ns, spurious)
           IN  [tr |-> [tr EXCEPT !.min_latency_ = c.actual],
                th |-> [th EXCEPT !.current_min = c.expected,
                                  !.pc = IF ~c.ok /\ Below(th.latency_ns, c.expected)
                                         THEN "cas_min" ELSE "load_max"]]
      [] th.pc = "load_max" ->
           LET cur == tr.max_latency_
           IN  [tr |-> tr,
                th |-> [th EXCEPT !.current_max = cur,
                                  !.pc = IF Above(th.latency_ns, cur)
                                         THEN "cas_max" ELSE "bucket"]]
      [] th.pc = "cas_max" ->
           LET c == compare_exchange_weak(tr.max_latency_, th.current_max,
                                          th.latency_ns, spurious)
           IN  [tr |-> [tr EXCEPT !.max_latency_ = c.actual],
                th |-> [th EXCEPT !.current_max = c.expected,
                                  !.pc = IF ~c.ok /\ Above(th.latency_ns, c.expected)
                                         THEN "cas_max" ELSE "bucket"]]
      [] th.pc = "bucket" ->
           [tr |-> [tr EXCEPT !.histogram_[bucket_index(tr, th.latency_ns) + 1] = @ + 1],
            th |-> [th EXCEPT !.pc = "samples"]]
      [] th.pc = "samples" ->
           [tr |-> [tr EXCEPT !.total_samples_ = @ + 1],
            th |-> [th EXCEPT !.pc = "total"]]
      [] th.pc = "total" ->
           [tr |-> [tr EXCEPT !.total_latency_ = @ + th.latency_ns],
            th |-> RecorderIdle]

\* a record() call run from its locals th to its return with no other thread
\* in between
RECURSIVE RunRecord(_, _)
RunRecord(tr, th) ==
    IF th.pc = "idle" THEN tr
    ELSE LET r == record_step(tr, th, FALSE)
         IN  RunRecord(r.tr, r.th)

\* tracker.record(latency_ns) by a single thread
record(tr, latency_ns) ==
    RunRecord(tr, [RecorderIdle EXCEPT !.pc = "load_min", !.latency_ns = latency_ns])

\* the percentile targets of get_stats
Targets(sample_count) ==
    [p50 |-> (sample_count * 50) \div 100,
     p95 |-> (sample_count * 95) \div 100,
     p99 |-> (sample_count * 99) \div 100,
     p999 |-> (sample_count * 999) \div 1000]

\* the scan of get_stats from bucket i (0-based) on: found holds the found_*
\* flags, the scan ends at the bucket that yields p999
RECURSIVE Scan(_, _, _, _, _, _)
Scan(tr, i, cumulative, target, found, stats) ==
    IF i >= Len(tr.histogram_) THEN stats
    ELSE LET cum == cumulative + tr.histogram_[i + 1]
             low == i * tr.bucket_size_ns_
             hit50 == ~found.p50 /\ cum >= target.p50
             hit95 == ~found.p95 /\ cum >= target.p95
             hit99 == ~found.p99 /\ cum >= target.p99
             hit999 == ~found.p999 /\ cum >= target.p999
             st == [stats EXCEPT !.p50_ns = IF hit50 THEN low ELSE @,
                                 !.p95_ns = IF hit95 THEN low ELSE @,
                                 !.p99_ns = IF hit99 THEN low ELSE @,
                                 !.p999_ns = IF hit999 THEN low ELSE @]
             fnd == [p50 |-> found.p50 \/ hit50, p95 |-> found.p95 \/ hit95,
                     p99 |-> found.p99 \/ hit99, p999 |-> found.p999 \/ hit999]
         IN  IF hit999 THEN st
             ELSE Scan(tr, i + 1, cum, target, fnd, st)

\* tracker.get_stats() with no record() in flight
get_stats(tr) ==
    LET sample_count == tr.total_samples_
    IN  IF sample_count = 0 THEN LatencyStats
        ELSE Scan(tr, 0, 0, Targets(sample_count),
                  [p50 |-> FALSE, p95 |-> FALSE, p99 |-> FALSE, p999 |-> FALSE],
                  [LatencyStats EXCEPT
                     !.sample_count = sample_count,
                     !.min_ns = tr.min_latency_,
                     !.max_ns = tr.max_latency_,
                     !.mean_ns = tr.total_latency_ \div sample_count])

LatencyInit ==
    /\ tracker = NoTracker
    /\ mirror = NoTracker
    /\ recorders = [t \in Threads |-> RecorderIdle]
    /\ recorded = << >>
    /\ mirrored = << >>
    /\ todo = [tracker |-> << >>, mirror |-> << >>]

\* LatencyTracker tracker(bucket_size_ns, max_latency_ns), shared by the
\* recording threads
Construct(bucket_size_ns, max_latency_ns) ==
    /\ ~Constructed(tracker)
    /\ tracker' = LatencyTracker(bucket_size_ns, max_latency_ns)
    /\ UNCHANGED <<mirror, recorders, recorded, mirrored, todo>>
    /\ UNCHANGED <<parserVars, cacheVars, engineVars>>

\* thread t enters tracker.record(latency_ns)
RecordCall(t, latency_ns) ==
    /\ Constructed(tracker)
    /\ recorders[t].pc = "idle"
    /\ Len(recorded) < MaxRecords
    /\ recorders' = [recorders EXCEPT ![t] =
                        [RecorderIdle EXCEPT !.pc = "load_min",
                                             !.latency_ns = latency_ns]]
    /\ recorded' = Append(recorded, latency_ns)
    /\ UNCHANGED <<tracker, mirror, mirrored, todo>>
    /\ UNCHANGED <<parserVars, cacheVars, engineVars>>

\* thread t makes the next atomic access of its record() call
RecordStep(t, spurious) ==
    /\ recorders[t].pc # "idle"
    /\ LET r == record_step(tracker, recorders[t], spurious)
       IN  /\ tracker' = r.tr
           /\ recorders' = [recorders EXCEPT ![t] = r.th]
    /\ UNCHANGED <<mirror, recorded, mirrored, todo>>
    /\ UNCHANGED <<parserVars, cacheVars, engineVars>>

\* the trackers of the tests, scaled down: max_latency_ns a multiple of
\* bucket_size_ns, and not
TestTrackers == {<<2, 4>>, <<2, 5>>}

\* test_concurrent_recording: threads recording into one tracker
HistogramNext ==
    \/ \E cfg \in TestTrackers : Construct(cfg[1], cfg[2])
    \/ \E t \in Threads : \E latency_ns \in Samples : RecordCall(t, latency_ns)
    \/ \E t \in Threads : \E spurious \in BOOLEAN : RecordStep(t, spurious)

\* trackers of every size, one thread recording
BucketsNext ==
    \/ /\ ~Constructed(tracker)
       /\ \E bucket_size_ns \in 1..MaxBucketSize :
             \E max_latency_ns \in 0..MaxLatencyNs :
                Construct(bucket_size_ns, max_latency_ns)
    \/ \E latency_ns \in Samples : RecordCall("t1", latency_ns)
    \/ \E spurious \in BOOLEAN : RecordStep("t1", spurious)

\* the orders in which n samples can be recorded
Orders(n) == {p \in [1..n -> 1..n] : \A i, j \in 1..n : p[i] = p[j] => i = j}

\* two trackers built alike, and the same samples laid out for each of them
\* in an order of its own
Arrange(bucket_size_ns, max_latency_ns, samples, order) ==
    /\ ~Constructed(tracker)
    /\ tracker' = LatencyTracker(bucket_size_ns, max_latency_ns)
    /\ mirror' = LatencyTracker(bucket_size_ns, max_latency_ns)
    /\ todo' = [tracker |-> samples,
                mirror |-> [i \in 1..Len(samples) |-> samples[order[i]]]]
    /\ UNCHANGED <<recorders, recorded, mirrored>>
    /\ UNCHANGED <<parserVars, cacheVars, engineVars>>

\* tracker.record() of the next sample, by the one thread there is
RecordNext ==
    /\ todo.tracker # << >>
    /\ tracker' = record(tracker, Head(todo.tracker))
    /\ recorded' = Append(recorded, Head(todo.tracker))
    /\ todo' = [todo EXCEPT !.tracker = Tail(@)]
    /\ UNCHANGED <<mirror, recorders, mirrored>>
    /\ UNCHANGED <<parserVars, cacheVars, engineVars>>

\* mirror.record() of the next sample
RecordMirror ==
    /\ todo.mirror # << >>
    /\ mirror' = record(mirror, Head(todo.mirror))
    /\ mirrored' = Append(mirrored, Head(todo.mirror))
    /\ todo' = [todo EXCEPT !.mirror = Tail(@)]
    /\ UNCHANGED <<tracker, recorders, recorded>>
    /\ UNCHANGED <<parserVars, cacheVars, engineVars>>

\* test_basic_recording, twice over
OrderNext ==
    \/ /\ ~Constructed(tracker)
       /\ \E cfg \in TestTrackers : \E n \in 1..MaxRecords :
             \E samples \in [1..n -> Samples] : \E order \in Orders(n) :
                Arrange(cfg[1], cfg[2], samples, order)
    \/ RecordNext
    \/ RecordMirror

\* a reset() that leaves the extremes as they are
LatencyTracker_reset_keep(tr) ==
    [tr EXCEPT !.histogram_ = [i \in DOMAIN @ |-> 0],
               !.total_samples_ = 0,
               !.total_latency_ = 0]

\* LatencyTracker::reset() with no other call in flight: every bucket and
\* every member is stored as the constructor stores it
LatencyTracker_reset(tr) ==
    [tr EXCEPT !.histogram_ = [i \in DOMAIN @ |-> 0],
               !.min_latency_ = UINT64_MAX,
               !.max_latency_ = 0,
               !.total_samples_ = 0,
               !.total_latency_ = 0]

\* tracker.record(latency_ns) by the one thread there is; once the tracker
\* has been reset, a tracker built afresh (mirror) is fed the same samples
RecordSample(latency_ns) ==
    /\ Constructed(tracker)
    /\ Len(recorded) < MaxRecords
    /\ tracker' = record(tracker, latency_ns)
    /\ recorded' = Append(recorded, latency_ns)
    /\ IF Constructed(mirror)
       THEN /\ mirror' = record(mirror, latency_ns)
            /\ mirrored' = Append(mirrored, latency_ns)
       ELSE UNCHANGED <<mirror, mirrored>>
    /\ UNCHANGED <<recorders, todo>>
    /\ UNCHANGED <<parserVars, cacheVars, engineVars>>

\* tracker.reset(), on a fresh tracker or after a record(); mirror is built
\* afresh with the tracker's constructor arguments
ResetTracker ==
    /\ Constructed(tracker)
    /\ ~Constructed(mirror) \/ mirrored # << >>
    /\ tracker' = LatencyTracker_reset(tracker)
    /\ mirror' = LatencyTracker(tracker.bucket_size_ns_, tracker.max_latency_ns_)
    /\ mirrored' = << >>
    /\ UNCHANGED <<recorders, recorded, todo>>
    /\ UNCHANGED <<parserVars, cacheVars, engineVars>>

\* test_reset: records, a reset, records again
ResetNext ==
    \/ \E cfg \in TestTrackers : Construct(cfg[1], cfg[2])
    \/ \E latency_ns \in Samples : RecordSample(latency_ns)
    \/ ResetTracker

\* the next atomic store of a reset() call with locals th: the buckets in
\* turn, then min_latency_, max_latency_, total_samples_, total_latency_
reset_step(tr, th) ==
    CASE th.pc = "reset_bucket" ->
           IF th.i < Len(tr.histogram_)
           THEN [tr |-> [tr EXCEPT !.histogram_[th.i + 1] = 0],
                 th |-> [th EXCEPT !.i = @ + 1]]
           ELSE [tr |-> [tr EXCEPT !.min_latency_ = UINT64_MAX],
                 th |-> [th EXCEPT !.pc = "reset_max"]]
      [] th.pc = "reset_max" ->
           [tr |-> [tr EXCEPT !.max_latency_ = 0],
            th |-> [th EXCEPT !.pc = "reset_samples"]]
      [] th.pc = "reset_samples" ->
           [tr |-> [tr EXCEPT !.total_samples_ = 0],
            th |-> [th EXCEPT !.pc = "reset_total"]]
      [] th.pc = "reset_total" ->
           [tr |-> [tr EXCEPT !.total_latency_ = 0],
            th |-> RecorderIdle]

\* the next atomic load of a get_stats() call with locals th: total_samples_
\* (the call returns the default stats at once if it is 0), min_latency_,
\* max_latency_, and then total_latency_ and the buckets, which are taken
\* together here; the returned stats stay in th.stats
get_stats_step(tr, th) ==
    CASE th.pc = "stats_samples" ->
           IF tr.total_samples_ = 0
           THEN [tr |-> tr, th |-> [RecorderIdle EXCEPT !.stats = LatencyStats]]
           ELSE [tr |-> tr,
                 th |-> [th EXCEPT !.stats.sample_count = tr.total_samples_,
                                   !.pc = "stats_min"]]
      [] th.pc = "stats_min" ->
           [tr |-> tr,
            th |-> [th EXCEPT !.stats.min_ns = tr.min_latency_, !.pc = "stats_max"]]
      [] th.pc = "stats_max" ->
           [tr |-> tr,
            th |-> [th EXCEPT !.stats.max_ns = tr.max_latency_, !.pc = "stats_scan"]]
      [] th.pc = "stats_scan" ->
           [tr |-> tr,
            th |-> [RecorderIdle EXCEPT !.stats =
                      Scan(tr, 0, 0, Targets(th.stats.sample_count),
                           [p50 |-> FALSE, p95 |-> FALSE, p99 |-> FALSE, p999 |-> FALSE],
                           [th.stats EXCEPT !.mean_ns =
                              tr.total_latency_ \div th.stats.sample_count])]]

\* thread t enters tracker.reset()
ResetCall(t) ==
    /\ Constructed(tracker)
    /\ recorders[t].pc = "idle"
    /\ recorders' = [recorders EXCEPT ![t] = [RecorderIdle EXCEPT !.pc = "reset_bucket"]]
    /\ UNCHANGED <<tracker, mirror, recorded, mirrored, todo>>
    /\ UNCHANGED <<parserVars, cacheVars, engineVars>>

\* thread t enters tracker.get_stats()
StatsCall(t) ==
    /\ Constructed(tracker)
    /\ recorders[t].pc = "idle"
    /\ recorders' = [recorders EXCEPT ![t] = [RecorderIdle EXCEPT !.pc = "stats_samples"]]
    /\ UNCHANGED <<tracker, mirror, recorded, mirrored, todo>>
    /\ UNCHANGED <<parserVars, cacheVars, engineVars>>

RecordPcs == {"load_min", "cas_min", "load_max", "cas_max", "bucket", "samples", "total"}

ResetPcs == {"reset_bucket", "reset_max", "reset_samples", "reset_total"}

\* thread t makes the next atomic access of the call it is in
CallStep(t, spurious) ==
    /\ recorders[t].pc # "idle"
    /\ recorders[t].pc \notin RecordPcs => ~spurious
    /\ LET th == recorders[t]
           r == IF th.pc \in RecordPcs THEN record_step(tracker, th, spurious)
                ELSE IF th.pc \in ResetPcs THEN reset_step(tracker, th)
                ELSE get_stats_step(tracker, th)
       IN  /\ tracker' = r.tr
           /\ recorders' = [recorders EXCEPT ![t] = r.th]
    /\ UNCHANGED <<mirror, recorded, mirrored, todo>>
    /\ UNCHANGED <<parserVars, cacheVars, engineVars>>

\* one thread recording and reading the statistics while another resets
\* the tracker
ConcurrentNext ==
    \/ Construct(2, 4)
    \/ \E latency_ns \in {1, 5} : RecordCall("t1", latency_ns)
    \/ StatsCall("t1")
    \/ ResetCall("t2")
    \/ \E t \in Threads : CallStep(t, FALSE)
-----------------------------------------------------------------------------
(* Specifications: one per subsystem, the others at rest                     *)

\* every object as its constructor leaves it
Init == ParserInit /\ CacheInit /\ EngineInit /\ LatencyInit

\* the same, with a byte stream queued for the parser
InitStream == StreamInit /\ CacheInit /\ EngineInit /\ LatencyInit

SpecParser == Init /\ [][ParserNext]_vars

SpecBulk == Init /\ [][BulkNext]_vars

SpecStream == InitStream /\ [][StreamNext]_vars

SpecCache == Init /\ [][CacheNext]_vars

SpecEngine == Init /\ [][EngineNext]_vars

SpecSaturation == Init /\ [][SaturationNext]_vars

SpecTracking == Init /\ [][TrackingNext]_vars

SpecReconnect == Init /\ [][ReconnectNext]_vars

SpecHistogram == Init /\ [][HistogramNext]_vars

SpecOrder == Init /\ [][OrderNext]_vars

SpecBuckets == Init /\ [][BucketsNext]_vars

SpecReset == Init /\ [][ResetNext]_vars

SpecPacing == Init /\ [][PacingNext]_vars

SpecGenerator == Init /\ [][GeneratorNext]_vars

SpecRoundRobin == Init /\ [][RoundRobinNext]_vars


\* run() keeps being called: weak fairness of RunCall, with its enabling
\* condition written out (RunChanges is ENABLED <<RunCall>>_vars), and of
\* the calls made between two ticks
SpecAccept ==
    /\ Init /\ [][AcceptNext]_vars
    /\ WF_vars(RunBetween)
    /\ (<>[]RunChanges => []<><<RunCall>>_vars)

\* both threads are scheduled again and again
SpecSnapshot ==
    /\ Init /\ [][SnapshotNext]_vars
    /\ WF_vars(WriterStep)
    /\ \A r \in Readers : WF_vars(ReaderStep(r))

\* main is scheduled again and again: it gets to call start(), and stop()
\* once it has left its loop
SpecMain ==
    /\ Init /\ [][MainNext]_vars
    /\ WF_vars(MainStart) /\ WF_vars(MainStop)

SpecDelivery == Init /\ [][DeliveryNext]_vars

SpecConcurrent == Init /\ [][ConcurrentNext]_vars
-----------------------------------------------------------------------------
(* Properties of the reframer *)

CbName(type) ==
    CASE type = TRADE -> "trade"
      [] type = QUOTE -> "quote"
      [] OTHER -> "heartbeat"

\* number of frames of the stream that lie wholly within its first n bytes
WholeFrames(frames, n) ==
    Cardinality({i \in 1..Len(frames) : Len(Bytes(SubSeq(frames, 1, i))) <= n})

\* C1: however a stream of valid frames with consecutive sequence numbers is
\* cut into parse() calls, the callbacks made so far are exactly the frames
\* that have arrived completely, each once and in stream order, with their
\* bytes unchanged, and no gap, checksum error or malformed message is
\* counted; once the whole stream is fed every frame has been dispatched.
C1_ReframeExact ==
    LET k == WholeFrames(sent, Len(Bytes(sent)) - Len(wire))
    IN  /\ parser.out = [i \in 1..k |-> [cb |-> CbName(sent[i].type),
                                         msg |-> sent[i].bytes]]
        /\ parser.stats.messages_parsed = k
        /\ parser.stats.sequence_gaps = 0
        /\ parser.stats.checksum_errors = 0
        /\ parser.stats.malformed_messages = 0
        /\ wire = << >> => Len(parser.out) = Len(sent)

\* a two-frame stream, cut inside a frame, has been delivered completely
C1_Witness ==
    /\ wire = << >>
    /\ fragmented
    /\ Len(sent) = 2
    /\ sent[1].type # sent[2].type
    /\ Len(parser.out) = 2

\* the frame at the front of the buffer is complete
CompleteFrame(v) ==
    /\ Len(v.head) >= HeaderSize
    /\ get_message_size(HeaderType(v.head)) # 0
    /\ v.buffer_used >= get_message_size(HeaderType(v.head))

FrontSize(v) == get_message_size(HeaderType(v.head))
FrontFrame(v) == SubSeq(v.head, 1, FrontSize(v))

IntegrityOk(v) == verify_checksum(v.head, FrontSize(v))

\* the frame at the front is complete and passes the enabled integrity check
Accepted(v) == CompleteFrame(v) /\ (v.validate_checksum => IntegrityOk(v))

\* the steps of the last parse() call: parser before and after each
\* parse_message()
StepIds == IF Len(steps) < 2 THEN {} ELSE 1..(Len(steps) - 1)

\* number of frames accepted between construction / the last reset and v
AcceptedSinceReset(v) == Len(v.out) - resetAt

Rejected(v) == CompleteFrame(v) /\ v.validate_checksum /\ ~IntegrityOk(v)

\* the bytes at the front of w are those that followed the first n bytes of v
ShiftedBy(v, w, n) ==
    /\ w.buffer_used = v.buffer_used - n
    /\ \A j \in 1..Min(Len(w.head), Len(v.head) - n) : w.head[j] = v.head[n + j]

\* C9: with integrity checking on, a complete frame whose integrity word
\* does not match is dropped: exactly its frame_size bytes leave the buffer,
\* checksum_errors grows by 1, no callback is made, no other counter and
\* neither last_sequence nor first_message changes; a frame accepted right
\* after it is gap-checked against the last accepted frame.
C9_BadChecksumDropped ==
    \A i \in StepIds :
        LET a == steps[i]
            b == steps[i + 1]
        IN  Rejected(a) =>
               /\ ShiftedBy(a, b, FrontSize(a))
               /\ b.stats = [a.stats EXCEPT !.checksum_errors = @ + 1]
               /\ b.out = a.out
               /\ b.last_sequence_number = a.last_sequence_number
               /\ b.first_message = a.first_message
               /\ (i + 1 \in StepIds /\ Accepted(b) /\ b.validate_sequence) =>
                     steps[i + 2].stats.sequence_gaps =
                        b.stats.sequence_gaps +
                        (IF /\ ~a.first_message
                            /\ HeaderSeq(b.head) # Inc32(a.last_sequence_number)
                         THEN 1 ELSE 0)

\* after an accepted frame a corrupted frame was dropped and the valid frame
\* behind it, two ahead of the last accepted one, was counted as a gap
C9_Witness ==
    \E i \in StepIds :
        /\ Rejected(steps[i])
        /\ ~steps[i].first_message
        /\ steps[i + 1].stats.checksum_errors = 1
        /\ i + 1 \in StepIds /\ Accepted(steps[i + 1])
        /\ HeaderSeq(steps[i + 1].head) =
              Add32(steps[i].last_sequence_number, 2)
        /\ steps[i + 2].stats.sequence_gaps = 1
        /\ steps[i + 2].stats.messages_parsed = 2

\* C10: a parse() call whose input does not fit beside the buffered bytes
\* resets the parser, discards the whole input and counts one malformed
\* message.
C10_OverflowResets ==
    (call.op = "parse" /\ call.len + call.before.buffer_used > BUFFER_SIZE) =>
        /\ parser.buffer = << >>
        /\ parser.first_message
        /\ parser.last_sequence_number = U32(0)
        /\ parser.out = call.before.out
        /\ parser.stats.malformed_messages =
              call.before.stats.malformed_messages + 1

\* the first 16 buffered bytes carry a type the protocol does not know
UnknownType(v) ==
    /\ Len(v.head) >= HeaderSize
    /\ get_message_size(HeaderType(v.head)) = 0

Drained(v) ==
    \/ v.buffer_used < HeaderSize
    \/ /\ get_message_size(HeaderType(v.head)) # 0
       /\ v.buffer_used < get_message_size(HeaderType(v.head))

\* C12: when parse() returns, either fewer than 16 bytes are buffered or the
\* buffer starts with a header of a known type whose frame is incomplete:
\* every complete frame that arrived in a call, also one behind a header of
\* unknown type, is dispatched or dropped within that call.
C12_LoopDrains ==
    (call.op = "parse" /\ call.ret > 0) => Drained(View(parser))

\* callbacks made since the construction / the last reset()
SinceReset == SubSeq(parser.out, resetAt + 1, Len(parser.out))

\* frames the peer wrote since the construction / the last reset()
SentSinceReset == SubSeq(sent, atReset.sent + 1, Len(sent))

\* C13: reset() empties the buffer and restores first_message = true and
\* last_sequence = 0 while every statistics counter keeps its value; the
\* bytes of a partial frame buffered before reset() are never combined with
\* the bytes fed after it (the frames dispatched since are exactly the
\* frames written since that have arrived completely, and none is counted
\* as damaged), and the first frame accepted after reset() counts no gap.
C13_ResetForgetsStream ==
    /\ call.op = "reset" =>
          /\ parser.buffer = << >>
          /\ parser.first_message
          /\ parser.last_sequence_number = U32(0)
          /\ parser.stats = call.before.stats
          /\ parser.out = call.before.out
    /\ LET frames == SentSinceReset
           k == WholeFrames(frames, Len(Bytes(frames)) - Len(wire))
       IN  /\ SinceReset = [i \in 1..k |-> [cb |-> CbName(frames[i].type),
                                            msg |-> frames[i].bytes]]
           /\ parser.stats.checksum_errors = 0
           /\ parser.stats.malformed_messages = 0
           /\ parser.stats.sequence_gaps = 0

\* a frame was dispatched, a reset() came while part of the next frame was
\* buffered, and a frame written afterwards has been dispatched
C13_Witness ==
    /\ call.op = "parse"
    /\ atReset.buffer_used > 0
    /\ resetAt > 0
    /\ Len(parser.out) > resetAt
    /\ parser.buffer = << >>

\* C29: a wrap of the 32-bit sequence number is treated as a gap: with
\* sequence checking on, when the last accepted sequence number is 2^32 - 1
\* and the next accepted frame carries 0, sequence_gaps grows by 1.
C29_WrapCountsAsGap ==
    \A i \in StepIds :
        LET a == steps[i]
            b == steps[i + 1]
        IN  (/\ Accepted(a) /\ a.validate_sequence
             /\ ~a.first_message
             /\ a.last_sequence_number = U32Max
             /\ HeaderSeq(a.head) = U32(0)) =>
               b.stats.sequence_gaps = a.stats.sequence_gaps + 1


\* the per-type counters add up to the number of dispatched frames
Balanced(stats) ==
    stats.messages_parsed =
        stats.trades_parsed + stats.quotes_parsed + stats.heartbeats_parsed

\* the counter of the callback made for a frame of the given type
Counter(type) ==
    CASE type = TRADE -> "trades_parsed"
      [] type = QUOTE -> "quotes_parsed"
      [] OTHER -> "heartbeats_parsed"

\* C35: in every reachable parser state messages_parsed = trades_parsed +
\* quotes_parsed + heartbeats_parsed, and each dispatched frame adds 1 to
\* messages_parsed and to exactly one per-type counter, the one of its type,
\* and leaves malformed_messages unchanged.
C35_CountersBalance ==
    /\ Balanced(parser.stats)
    /\ \A i \in 1..Len(steps) : Balanced(steps[i].stats)
    /\ \A i \in StepIds :
          LET a == steps[i]
              b == steps[i + 1]
              own == Counter(HeaderType(a.head))
          IN  Accepted(a) =>
                /\ b.stats.messages_parsed = a.stats.messages_parsed + 1
                /\ b.stats[own] = a.stats[own] + 1
                /\ \A c \in {"trades_parsed", "quotes_parsed", "heartbeats_parsed"} \ {own} :
                      b.stats[c] = a.stats[c]
                /\ b.stats.malformed_messages = a.stats.malformed_messages

\* frames of all three types have been dispatched, one of them in the last
\* parse() call
C35_Witness ==
    /\ parser.stats.trades_parsed >= 1
    /\ parser.stats.quotes_parsed >= 1
    /\ parser.stats.heartbeats_parsed >= 1
    /\ \E i \in StepIds : Accepted(steps[i])

\* the room left in the buffer when the last parse() call was entered
FreeAtEntry == BUFFER_SIZE - call.before.buffer_used

\* C36: whatever bytes parse() is called with, the number of buffered bytes
\* never exceeds BUFFER_SIZE, a call copies no more than the room that was
\* left, and its return value is the number of input bytes it appended to
\* the buffer.
C36_BufferBounded ==
    /\ buffer_used(parser) <= BUFFER_SIZE
    /\ \A i \in 1..Len(steps) : steps[i].buffer_used <= BUFFER_SIZE
    /\ call.op = "parse" =>
          /\ call.ret <= FreeAtEntry
          /\ call.ret <= call.len
          /\ call.ret > 0 => steps[1].buffer_used = call.before.buffer_used + call.ret
          /\ (call.ret = 0 /\ steps # << >>) => steps[1].buffer_used <= call.before.buffer_used

\* a call with more bytes than there was room for: the buffer held bytes, the
\* call copied as many as fitted and returned that number
C36_Witness ==
    /\ call.op = "parse"
    /\ call.before.buffer_used > 0
    /\ call.len > FreeAtEntry
    /\ call.ret = FreeAtEntry
    /\ call.ret > 0
-----------------------------------------------------------------------------
(* Properties of the symbol cache *)

\* every get_snapshot call of every reader that has returned, as <<r, i>>
Returns == {ri \in Readers \X (1..MaxReads) : ri[2] <= Len(results[ri[1]])}

\* the values the c-th update_quote call of the writer passes
QuotePair(c) == <<c, c + 1>>

\* C2: with one writer and any readers, a snapshot returned by get_snapshot
\* is the slot's data as it stood after some whole number of completed
\* updates, one that was current at some instant of the call; and when only
\* update_quote has written the slot, the returned bid and ask are those of
\* one and the same update_quote call (or the initial zeros).
C2_SnapshotIsWhole ==
    \A ri \in Returns :
        LET res == results[ri[1]][ri[2]]
        IN  res.in_range =>
              /\ \E k \in res.lo..res.hi :
                    res.state = history[res.symbol_id][k + 1]
              /\ res.only_quotes =>
                    \/ <<res.state.best_bid, res.state.best_ask>> = <<0, 0>>
                    \/ \E c \in 1..wcalls :
                          <<res.state.best_bid, res.state.best_ask>> = QuotePair(c)

\* a call that ran into an update_quote, went round the loop again and
\* returned what that update left
C2_Witness ==
    \E ri \in Returns :
        LET res == results[ri[1]][ri[2]]
        IN  /\ res.in_range /\ res.retried /\ res.only_quotes
            /\ res.hi > res.lo
            /\ res.state = history[res.symbol_id][res.hi + 1]
            /\ res.state.update_count = 1

Slots == 0..(cache.num_symbols_ - 1)

\* the writer is between the two counter stores of an update to slot s
InProgress(s) == writer.pc = "data" /\ writer.symbol_id = s

\* C14: for every slot the counter is 0 at creation, odd exactly while an
\* update to that slot is in progress, even otherwise, and 2k after k
\* completed updates (whichever of the four update calls they were).
C14_CounterCountsUpdates ==
    \A s \in Slots :
        cache.states_[s].sequence =
            2 * Completed(s) + (IF InProgress(s) THEN 1 ELSE 0)

\* the third update to slot 0 is in progress: the counter is 5
C14_Witness ==
    /\ Completed(0) = 2
    /\ InProgress(0)
    /\ cache.states_[0].sequence = 5
    /\ cache.states_[1].sequence = 0

\* C15: after any sequence of update calls with in-range ids, a snapshot of
\* symbol s taken while no write to s is in progress (every update call to
\* s started by the return had completed when get_snapshot was entered) has
\* update_count equal to the number of those calls.
C15_UpdateCountTracksCalls ==
    \A r \in Readers : \A i \in 1..Len(results[r]) :
        LET res == results[r][i]
        IN  (res.in_range /\ res.lo = res.calls) =>
               res.state.update_count = res.calls

\* a snapshot taken after three completed updates reports 3
C15_Witness ==
    \E r \in Readers : \E i \in 1..Len(results[r]) :
        LET res == results[r][i]
        IN  /\ res.in_range /\ res.lo = 3 /\ res.calls = 3
            /\ res.state.update_count = 3

\* C16: the update_count values of one symbol returned to the same reader by
\* successive get_snapshot calls never decrease, under any interleaving with
\* the single writer.
C16_UpdateCountMonotonic ==
    \A r \in Readers : \A i, j \in 1..Len(results[r]) :
        (/\ i < j
         /\ results[r][i].in_range
         /\ results[r][i].symbol_id = results[r][j].symbol_id) =>
            results[r][i].state.update_count <= results[r][j].state.update_count

\* a reader got 1, and then 2 from a call that an update made go round again
C16_Witness ==
    \E r \in Readers :
        /\ Len(results[r]) = 2
        /\ results[r][1].state.update_count = 1
        /\ results[r][2].state.update_count = 2
        /\ results[r][2].retried
        /\ results[r][2].lo = 1

\* some update call with this id and the values of the writer's next call
AnyUpdate(id) ==
    \/ update_bid(id, wcalls + 1, wcalls + 1)
    \/ update_ask(id, wcalls + 1, wcalls + 1)
    \/ update_trade(id, wcalls + 1, wcalls + 1)
    \/ update_quote(id, wcalls + 1, wcalls + 1, wcalls + 2, wcalls + 1)

NoOverlap(res) == res.calls = res.lo

\* C33: a get_snapshot call that no write to its slot overlaps returns after
\* a single pass, without a retry; and under weak fairness of both threads
\* every call returns once the writer makes no further update to the slot.
C33_ReaderReturns ==
    /\ [](\A ri \in Returns :
             LET res == results[ri[1]][ri[2]]
             IN  (res.in_range /\ NoOverlap(res)) => ~res.retried)
    /\ \A r \in Readers : (readers[r].pc # "idle") ~> (readers[r].pc = "idle")

\* one call returned after a retry that an update made it take, and one call
\* that began after the update was complete returned in one pass
C33_Witness ==
    /\ \E ri \in Returns :
          LET res == results[ri[1]][ri[2]]
          IN  res.retried /\ res.hi > res.lo
    /\ \E ri \in Returns :
          LET res == results[ri[1]][ri[2]]
          IN  ~res.retried /\ NoOverlap(res) /\ res.lo > 0
-----------------------------------------------------------------------------
(* Properties of the broadcast engine, stated on the last run() that emitted *)

PeerFds(clients) == {clients[i].fd : i \in 1..Len(clients)}

Peer(clients, fd) == clients[CHOOSE i \in 1..Len(clients) : clients[i].fd = fd]

\* the send calls made for a descriptor in the last broadcast
Attempts(fd) == {k \in 1..Len(lastRun.log) : lastRun.log[k].fd = fd}

FullWrite(e) == e.sent = lastRun.len
WouldBlock(e) == e.sent < 0 /\ e.errno = EAGAIN
PartialWrite(e) == e.sent >= 0 /\ e.sent # lastRun.len
SendError(e) == e.sent < 0 /\ e.errno # EAGAIN

Removed(fd) == fd \in PeerFds(lastRun.before) /\ fd \notin PeerFds(lastRun.after)

ClosedInRun(fd) == \E k \in 1..Len(lastRun.closed) : lastRun.closed[k] = fd

\* C3: every emission made while a fast peer is connected raises that peer's
\* messages_sent by exactly 1, whatever happens to the other peers in the
\* same broadcast and wherever the peers sit in the list.
C3_FastPeerFullRate ==
    lastRun.emitted =>
        \A i \in 1..Len(lastRun.before) :
            LET c == lastRun.before[i]
            IN  lastRun.socks[c.fd].kind = "fast" =>
                  /\ c.fd \in PeerFds(lastRun.after)
                  /\ Peer(lastRun.after, c.fd).messages_sent = c.messages_sent + 1

\* a fast peer behind a peer that is removed in the same broadcast
C3_Witness ==
    /\ lastRun.emitted
    /\ Len(lastRun.before) = 2
    /\ lastRun.socks[lastRun.before[2].fd].kind = "fast"
    /\ Removed(lastRun.before[1].fd)
    /\ Peer(lastRun.after, lastRun.before[2].fd).messages_sent = 2

\* C4: in one emission no peer gets a second send call, also when peers are
\* removed from the list during the loop.
C4_OneSendPerPeer ==
    lastRun.emitted =>
        \A fd \in Descriptors : Cardinality(Attempts(fd)) <= 1

\* a broadcast to two peers in which the first one is removed
C4_Witness ==
    /\ lastRun.emitted
    /\ Len(lastRun.before) = 2
    /\ Removed(lastRun.before[1].fd)
    /\ Cardinality(Attempts(lastRun.before[1].fd)) = 1
    /\ Cardinality(Attempts(lastRun.before[2].fd)) = 1

C22_StopClosesAll ==
    stopped =>
        /\ sim.clients_ = << >>
        /\ fds = {}

\* C23: after set_tick_rate(0) the engine emits no frames: while the rate is
\* 0 no run() call generates or broadcasts a tick.
C23_ZeroRateSilent ==
    [][sim.tick_rate_ = 0 =>
          /\ generated' = generated
          /\ sim'.sequence_number_ = sim.sequence_number_]_vars

\* C24: for a symbol count N >= 1 the round-robin cursor is always in
\* [0, N), each emission generates one tick for one symbol, the k-th
\* emission since construction (counting from 0) is for symbol k mod N, and
\* any N consecutive emissions cover every symbol exactly once.
C24_RoundRobin ==
    LET N == sim.num_symbols_
    IN  /\ sim.next_symbol_index_ \in 0..(N - 1)
        /\ sim.next_symbol_index_ = Len(generated) % N
        /\ Len(generated) = ticks
        /\ \A k \in 1..Len(generated) :
              /\ generated[k].ok
              /\ generated[k].symbol_id = (k - 1) % N
        /\ \A j \in 1..Len(generated) :
              j + N - 1 <= Len(generated) =>
                 /\ {generated[j + i].symbol_id : i \in 0..(N - 1)} = 0..(N - 1)
                 /\ \A a, b \in 0..(N - 1) :
                       generated[j + a].symbol_id = generated[j + b].symbol_id
                          => a = b

\* an engine of three symbols has emitted four times: the fourth emission
\* is for symbol 0 again
C24_Witness ==
    /\ sim.num_symbols_ = 3
    /\ Len(generated) = 4
    /\ generated[3].symbol_id = 2
    /\ generated[4].symbol_id = 0
    /\ sim.next_symbol_index_ = 1
    /\ sim.clients_ # << >>

\* C25: run() emits at most once per call, and only when at least
\* tick_interval_ns has elapsed on the engine clock since the previous
\* emission (since start() for the first one); after an emission
\* last_tick_time is the clock value read in that call, so two consecutive
\* emissions are never less than one interval apart.
C25_OneEmissionPerInterval ==
    /\ [](\A k \in 1..Len(generated) :
             LET e == generated[k]
                 previous == IF k = 1 THEN Epoch ELSE generated[k - 1].at
             IN  /\ e.since = previous
                 /\ e.at - previous >= e.interval
                 /\ k = Len(generated) => sim.last_tick_time_ns_ = e.at)
    /\ [][Len(generated') <= Len(generated) + 1]_vars

\* the second emission came one and a half intervals after the first, the
\* rate having been changed in between
C25_Witness ==
    /\ Len(generated) = 2
    /\ generated[2].interval # generated[1].interval
    /\ generated[2].at - generated[1].at > generated[2].interval
    /\ sim.last_tick_time_ns_ = generated[2].at

\* the successful calls among the first n generate_tick calls
Successful(n) == {j \in 1..n : generated[j].ok}

\* C26: every successful generate_tick call, for whatever symbol, stamps the
\* header with a sequence number exactly 1 greater than that of the previous
\* successful call, starting at 1; a call with an out-of-range symbol id
\* fails and consumes no sequence number.
C26_SequenceStepsByOne ==
    /\ sim.sequence_number_ = Cardinality(Successful(Len(generated)))
    /\ \A k \in 1..Len(generated) :
          /\ generated[k].ok <=> generated[k].symbol_id < sim.num_symbols_
          /\ generated[k].ok =>
                generated[k].sequence_number = Cardinality(Successful(k - 1)) + 1

\* two successful calls for different symbols with a failed call between
\* them carry the numbers 1 and 2
C26_Witness ==
    /\ Len(generated) = 3
    /\ generated[1].ok /\ generated[1].sequence_number = 1
    /\ ~generated[2].ok
    /\ generated[3].ok /\ generated[3].sequence_number = 2
    /\ generated[1].symbol_id # generated[3].symbol_id

\* the place of the frame with sequence number s in the emission order
Emission(s) ==
    CHOOSE k \in 1..Len(generated) :
        generated[k].ok /\ generated[k].sequence_number = s

\* C27: for each peer, the frames fully written to it form a subsequence of
\* the publisher's emission order: each is an emitted frame, none is
\* written to the peer twice, and none after a frame that was emitted later.
C27_PeerOrderPreserved ==
    \A fd \in DOMAIN socks :
        LET got == socks[fd].got
        IN  /\ \A i \in 1..Len(got) :
                  \E k \in 1..Len(generated) :
                      generated[k].ok /\ generated[k].sequence_number = got[i]
            /\ \A i, j \in 1..Len(got) :
                  i < j => Emission(got[i]) < Emission(got[j])

\* one peer was written both frames, another only the second, the first
\* having been dropped for it
C27_Witness ==
    \E fd, other \in DOMAIN socks :
        /\ socks[fd].got = <<1, 2>>
        /\ socks[other].got = <<2>>
        /\ socks[other].kind = "slow"
        /\ Len(generated) = 2

\* C28: no outcome of a send to a peer (would-block, partial write, error)
\* and no removal of a peer changes the running flag or closes the listener
\* or the poller: after every broadcast the engine is running with both
\* handles open, and every later run() that finds the interval elapsed
\* emits again.
C28_PeerFailureKeepsEngineUp ==
    /\ [](lastRun.emitted =>
             /\ sim.running_
             /\ sim.listen_fd_ \in fds
             /\ sim.epoll_fd_ \in fds
             /\ \A k \in 1..Len(lastRun.closed) :
                   lastRun.closed[k] \notin {sim.listen_fd_, sim.epoll_fd_})
    /\ [][(sim.running_ /\ now' # now) =>
             /\ Len(generated') = Len(generated) + 1
             /\ sim'.running_]_vars

\* the first emission removed the only peer; a peer that connected
\* afterwards was accepted, on the descriptor freed, and got the second
\* emission
C28_Witness ==
    /\ Len(generated) = 2
    /\ sim.total_messages_sent_ = 2
    /\ conns = 2
    /\ sim.running_
    /\ Len(sim.clients_) = 1
    /\ sim.clients_[1].fd = 5
    /\ socks[5].kind = "fast"
    /\ socks[5].got = <<2>>

\* C30: every emission made while at least one peer is in the list adds
\* exactly 1 to total_messages_sent and the frame length to
\* total_bytes_sent, whatever the per-peer send outcomes are (a frame
\* dropped for a peer on would-block still counts as sent); an emission
\* made with an empty peer list, and a run() without emission, change
\* neither total.
C30_TotalsCountEmissions ==
    [][IF Len(generated') = Len(generated) + 1 /\ lastRun'.before # << >>
       THEN /\ sim'.total_messages_sent_ = sim.total_messages_sent_ + 1
            /\ sim'.total_bytes_sent_ = sim.total_bytes_sent_ + lastRun'.len
       ELSE /\ sim'.total_messages_sent_ = sim.total_messages_sent_
            /\ sim'.total_bytes_sent_ = sim.total_bytes_sent_]_vars

\* after an emission with no peer in the list, an emission whose only send
\* reported would-block was counted
C30_Witness ==
    /\ Len(generated) = 2
    /\ lastRun.emitted
    /\ Len(lastRun.log) = 1
    /\ WouldBlock(lastRun.log[1])
    /\ sim.total_messages_sent_ = 1
    /\ sim.total_bytes_sent_ = lastRun.len
    /\ sim.clients_[1].messages_sent = 0

\* the place of a descriptor in the peer list the broadcast started with
Place(fd) == CHOOSE i \in 1..Len(lastRun.before) : lastRun.before[i].fd = fd

\* the places of the peers that have no send among the first k of the log
Unattempted(k) ==
    {i \in 1..Len(lastRun.before) :
        \A j \in 1..k : lastRun.log[j].fd # lastRun.before[i].fd}

\* C31: in one broadcast every peer that is in the list when the broadcast
\* starts gets exactly one send attempt, also when earlier peers are removed
\* by swap-with-last-and-pop during the loop: after a removal the next
\* attempt is for the peer swapped into the freed index (the last one not
\* yet attempted), otherwise for the next peer in list order; no peer is
\* skipped.
C31_EveryPeerAttemptedOnce ==
    lastRun.emitted =>
        /\ \A i \in 1..Len(lastRun.before) :
              Cardinality(Attempts(lastRun.before[i].fd)) = 1
        /\ Len(lastRun.log) = Len(lastRun.before)
        /\ \A k \in 1..Len(lastRun.log) :
              LET left == Unattempted(k - 1)
                  removal == k > 1 /\ (\/ PartialWrite(lastRun.log[k - 1])
                                       \/ SendError(lastRun.log[k - 1]))
              IN  /\ lastRun.log[k].fd \in PeerFds(lastRun.before)
                  /\ \A i \in left :
                        IF removal THEN i <= Place(lastRun.log[k].fd)
                        ELSE i >= Place(lastRun.log[k].fd)

\* the first of two peers is removed for a send error; the second, swapped
\* into its place, is attempted, would block and stays
C31_Witness ==
    /\ lastRun.emitted
    /\ Len(lastRun.before) = 2
    /\ Len(lastRun.log) = 2
    /\ SendError(lastRun.log[1])
    /\ lastRun.log[1].fd = lastRun.before[1].fd
    /\ WouldBlock(lastRun.log[2])
    /\ lastRun.log[2].fd = lastRun.before[2].fd
    /\ Len(lastRun.after) = 1
    /\ lastRun.after[1].fd = lastRun.before[2].fd


C34_ShutdownStops ==
    /\ (~g_running) ~> stopped
    /\ [][stopped =>
            /\ generated' = generated
            /\ sim' = sim
            /\ fds' = fds
            /\ socks' = socks]_vars

\* the flag was cleared after a tick had been broadcast to a peer; stop()
\* has returned and has closed the peer, the listener and the poller
C34_Witness ==
    /\ stopped
    /\ ~g_running
    /\ Len(generated) >= 1
    /\ sim.total_messages_sent_ >= 1
    /\ sim.clients_ = << >>
    /\ fds = {}

\* the bytes a peer has received: the frames written to it in full, in the
\* order of the sends, each a TRADE or a QUOTE as types says
RECURSIVE Received(_, _)
Received(got, types) ==
    IF got = << >> THEN << >>
    ELSE Received(SubSeq(got, 1, Len(got) - 1), types)
            \o EncodeFrame(types[Len(got)], U32(got[Len(got)]), 0, got[Len(got)])

\* the subscriber's parser, as constructed, after it was fed those bytes
Subscriber(got, types) == Last(parse(MessageParser, Received(got, types)).trace)

\* pairs of frames received one after the other that were not emitted one
\* after the other
Breaks(got) == {i \in 1..(Len(got) - 1) : got[i + 1] # got[i] + 1}

\* C37: a subscriber whose parser is fed the frames written in full to its
\* peer, in order, with both checks on, counts no checksum error, dispatches
\* every frame, and counts one gap for every pair of consecutive frames that
\* are not consecutive emissions; a peer whose sends never would block
\* counts none.
C37_GapsMatchDrops ==
    \A fd \in DOMAIN socks :
        LET got == socks[fd].got
        IN  \A types \in [1..Len(got) -> {TRADE, QUOTE}] :
               LET p == IF got = << >> THEN MessageParser ELSE Subscriber(got, types)
               IN  /\ p.stats.checksum_errors = 0
                   /\ p.stats.malformed_messages = 0
                   /\ Len(p.out) = Len(got)
                   /\ p.stats.messages_parsed = Len(got)
                   /\ p.buffer = << >>
                   /\ p.stats.sequence_gaps = Cardinality(Breaks(got))
                   /\ socks[fd].kind = "fast" => p.stats.sequence_gaps = 0

\* a peer received a frame, missed two in a row on would-block and received
\* the next: its parser counts one gap
C37_Witness ==
    \E fd \in DOMAIN socks :
        /\ socks[fd].got = <<1, 4>>
        /\ Subscriber(socks[fd].got, <<TRADE, QUOTE>>).stats.sequence_gaps = 1

\* C40: after any sequence of accepts, peer failures and broadcasts every
\* entry of the peer list is active and its handle is open, and no handle
\* occurs twice in the list.
C40_PeerListSound ==
    LET clients == sim.clients_
    IN  /\ \A i \in 1..Len(clients) :
              /\ clients[i].active
              /\ clients[i].fd \in fds
              /\ clients[i].fd \in DOMAIN socks
              /\ clients[i].fd \notin {sim.listen_fd_, sim.epoll_fd_}
        /\ \A i, j \in 1..Len(clients) : clients[i].fd = clients[j].fd => i = j

\* the first of two peers was removed in the last broadcast: its handle is
\* closed and the list holds the other peer alone
C40_Witness ==
    /\ Len(lastRun.before) = 2
    /\ lastRun.closed = <<lastRun.before[1].fd>>
    /\ Len(sim.clients_) = 1
    /\ sim.clients_[1].fd = lastRun.before[2].fd
    /\ lastRun.before[1].fd \notin fds
-----------------------------------------------------------------------------
(* Properties of the latency histogram *)

RECURSIVE SumOf(_)
SumOf(s) == IF s = << >> THEN 0 ELSE Head(s) + SumOf(Tail(s))

Smallest(s) == CHOOSE x \in {s[i] : i \in 1..Len(s)} : \A i \in 1..Len(s) : x <= s[i]

Largest(s) == CHOOSE x \in {s[i] : i \in 1..Len(s)} : \A i \in 1..Len(s) : x >= s[i]

\* both trackers have been fed all their samples
AllRecorded ==
    /\ Constructed(tracker)
    /\ todo.tracker = << >>
    /\ todo.mirror = << >>

\* C18: for any multiset of latencies recorded into a fresh tracker,
\* get_stats called after all records returns the same min, max,
\* sample_count, mean and p50/p95/p99/p999 whatever the order in which the
\* samples were recorded.
C18_RecordOrderIrrelevant ==
    AllRecorded =>
        /\ get_stats(tracker) = get_stats(mirror)
        /\ tracker.total_latency_ = mirror.total_latency_
        /\ tracker.histogram_ = mirror.histogram_

\* three different samples, the largest recorded first into one tracker and
\* last into the other, some beyond the tracked range
C18_Witness ==
    /\ AllRecorded
    /\ Len(recorded) = 3
    /\ recorded # mirrored
    /\ recorded[1] = 9 /\ mirrored[3] = 9
    /\ Smallest(recorded) = 1
    /\ get_stats(tracker).max_ns = 9
    /\ get_stats(tracker).p999_ns > 0

\* no record() call is in flight
AllReturned == \A t \in Threads : recorders[t].pc = "idle"

\* C19: when several threads call record concurrently (no reset), no sample
\* is lost under any interleaving of the atomic steps: once all calls have
\* returned, sample_count is the number of record calls, the bucket counters
\* sum to it, the stored sum is the sum of all samples, and min and max are
\* the smallest and the largest recorded sample.
C19_NoSampleLost ==
    (AllReturned /\ recorded # << >>) =>
        /\ get_stats(tracker).sample_count = Len(recorded)
        /\ SumOf(tracker.histogram_) = Len(recorded)
        /\ tracker.total_latency_ = SumOf(recorded)
        /\ get_stats(tracker).min_ns = Smallest(recorded)
        /\ get_stats(tracker).max_ns = Largest(recorded)

\* three calls of differing samples have returned
C19_Witness ==
    /\ AllReturned
    /\ Len(recorded) = 3
    /\ Smallest(recorded) # Largest(recorded)
    /\ tracker.total_samples_ = 3
    /\ tracker.min_latency_ = Smallest(recorded)

Ceil(a, b) == (a + b - 1) \div b

\* C20: a tracker built with bucket_size_ns = b and max_latency_ns = m has
\* exactly ceil(m / b) + 1 buckets, for every b >= 1 and m >= 0, also when m
\* is not a multiple of b.
C20_BucketCount ==
    Constructed(tracker) =>
        get_num_buckets(tracker) =
            Ceil(tracker.max_latency_ns_, tracker.bucket_size_ns_) + 1

\* the tracker holds no sample: none recorded since it was built or reset
HoldsNone ==
    /\ Constructed(tracker)
    /\ IF Constructed(mirror) THEN mirrored = << >> ELSE recorded = << >>

\* C21: get_stats on a tracker holding no samples (fresh, or reset with no
\* record since) returns sample_count 0 and 0 for min, max, mean and every
\* percentile; samples recorded after a reset are reported exactly as on a
\* tracker built afresh with the same arguments and fed those samples.
C21_EmptyReportsZero ==
    /\ HoldsNone => get_stats(tracker) = LatencyStats
    /\ Constructed(mirror) =>
          /\ get_stats(tracker) = get_stats(mirror)
          /\ tracker = mirror

\* two samples recorded after a reset that followed a smaller and a larger
\* sample are reported with their own extremes
C21_Witness ==
    /\ Constructed(mirror)
    /\ Len(recorded) = 3
    /\ Len(mirrored) = 2
    /\ recorded[1] < Smallest(mirrored)
    /\ get_stats(tracker).sample_count = 2
    /\ get_stats(tracker).min_ns = Smallest(mirrored)
    /\ get_stats(tracker).min_ns > recorded[1]


\* C38: whenever get_stats returns sample_count > 0 it returns
\* min_ns <= max_ns, however the atomic accesses of concurrent record, reset
\* and get_stats calls interleave.
C38_MinNotAboveMax ==
    \A t \in Threads :
        (recorders[t].pc = "idle" /\ recorders[t].stats.sample_count > 0) =>
            recorders[t].stats.min_ns <= recorders[t].stats.max_ns

\* the percentiles get_stats reports
Percentiles(st) == <<st.p50_ns, st.p95_ns, st.p99_ns, st.p999_ns>>

\* v is the lower bound of a bucket of tr that holds a sample
OccupiedLow(tr, v) ==
    \E i \in 0..(Len(tr.histogram_) - 1) :
        v = i * tr.bucket_size_ns_ /\ tr.histogram_[i + 1] > 0

\* C39: for a tracker that holds at least one sample, with no call in
\* flight, get_stats reports p50 <= p95 <= p99 <= p999, each of them the
\* lower bound of a bucket that holds a sample, hence none below the lower
\* bound of the bucket of the smallest sample and none above the largest.
C39_PercentilesWithinSamples ==
    (Constructed(tracker) /\ tracker.total_samples_ > 0) =>
        LET st == get_stats(tracker)
            p == Percentiles(st)
        IN  /\ p[1] <= p[2] /\ p[2] <= p[3] /\ p[3] <= p[4]
            /\ \A k \in 1..4 :
                  /\ OccupiedLow(tracker, p[k])
                  /\ p[k] >= bucket_index(tracker, st.min_ns) * tracker.bucket_size_ns_
                  /\ p[k] <= st.max_ns
=============================================================================
